---- MODULE Spec2Model ----
(***************************************************************************)
(* A model of TinyTRL's String (short / long / wrapped tagged union) and   *)
(* Array<T>, written from src/src/TinyTRL_Strings.cpp and                  *)
(* src/include/TinyTRL_Containers.inl.                                     *)
(*                                                                         *)
(* A String object is the record str:                                      *)
(*   long   the ShortLongBit of _bytes[ShortLengthOffset]                  *)
(*   len    the length bits (shortLength() or longLength())                *)
(*   pol    the pollute bit (ShortPolluteBit, or LongBit of _capacity)     *)
(*   cap    _capacity without its pollute bit (long only; 0 = wrapped)     *)
(*   bytes  _bytes[0 .. ShortLengthOffset-1], the inline characters        *)
(*   heap   the heap block _chars owns (its length is the block's size)    *)
(*   ext    the caller's buffer a wrapped string points at                 *)
(*   oob    set once an access fell outside the storage it was aimed at    *)
(*   failed set when malloc/realloc returned NULL during the last call     *)
(*   ret    what the last call returned (TRUE after a call returning the   *)
(*          string itself)                                                 *)
(* Bytes are small numbers: 0 is the terminator, 1 and 2 are characters,   *)
(* Uninit is what malloc/realloc left in memory nobody wrote.              *)
(***************************************************************************)
EXTENDS Integers, Sequences, FiniteSets, TLC

\* sizeof(String): 24 on 64-bit, 12 on 32-bit platforms; scaled down here.
ShortLength == 4

\* String::MaxLength (INT64_MAX - 1 in the source), scaled down so that the
\* overflow branches are reachable.
StrMaxLength == 6

ShortCapacity == ShortLength - 1

ShortLengthOffset == ShortLength - 1

NullLength == 1

NotFound == -1

Uninit == 3

Chars == {1, 2}

\* ---------------------------------------------------------------- math

max(left, right) == IF left < right THEN right ELSE left

min(value1, value2) == IF value1 <= value2 THEN value1 ELSE value2

saturate(value, minLimit, maxLimit) ==
  LET temp == IF value > minLimit THEN value ELSE minLimit
  IN  IF temp < maxLimit THEN temp ELSE maxLimit

\* value & (value - 1): clears the lowest set bit.
RECURSIVE LowestBit(_)
LowestBit(v) == IF v <= 0 THEN 0 ELSE IF v % 2 = 1 THEN 1 ELSE 2 * LowestBit(v \div 2)

ClearLowestBit(v) == v - LowestBit(v)

isPowerOfTwo(value) == value >= 1 /\ ClearLowestBit(value) = 0

RECURSIVE ClearUntilPowerOfTwo(_)
ClearUntilPowerOfTwo(v) ==
  IF isPowerOfTwo(v) \/ v <= 0 THEN v ELSE ClearUntilPowerOfTwo(ClearLowestBit(v))

floorPowerOfTwo(value) ==
  IF value > 2 THEN ClearUntilPowerOfTwo(value) ELSE value

ceilPowerOfTwo(value) ==
  IF value > 2 /\ ~isPowerOfTwo(value) THEN ClearUntilPowerOfTwo(2 * value) ELSE value

computeNextCapacity1(capacity) ==
  IF capacity < 16 \/ ~isPowerOfTwo(capacity)
  THEN LET nextCapacity == ceilPowerOfTwo(capacity + 1)
       IN  IF nextCapacity - capacity < capacity \div 3
           THEN nextCapacity + (nextCapacity \div 2)
           ELSE nextCapacity
  ELSE capacity + (capacity \div 2)

\* a growth that always settles for one and a half times the power of two below
NextCapacityOneAndHalf(capacity, currentCapacity, initialCapacity) ==
  IF currentCapacity # initialCapacity
  THEN LET capacityNext == computeNextCapacity1(currentCapacity)
       IN  IF capacity > capacityNext
           THEN IF ~isPowerOfTwo(capacity)
                THEN floorPowerOfTwo(capacity) + (floorPowerOfTwo(capacity) \div 2)
                ELSE capacity
           ELSE capacityNext
  ELSE capacity

computeNextCapacity(capacity, currentCapacity, initialCapacity) ==
  IF currentCapacity # initialCapacity
  THEN LET capacityNext == computeNextCapacity1(currentCapacity)
       IN  IF capacity > capacityNext
           THEN IF ~isPowerOfTwo(capacity)
                THEN LET capacityPred == floorPowerOfTwo(capacity) + (floorPowerOfTwo(capacity) \div 2)
                     IN  IF capacityPred >= capacity THEN capacityPred ELSE ceilPowerOfTwo(capacity)
                ELSE capacity
           ELSE capacityNext
  ELSE capacity

\* ------------------------------------------------------------ sequences

Fill(n, v) == [i \in 1..n |-> v]

Take(seq, n) == SubSeq(seq, 1, min(n, Len(seq)))

\* a block of n bytes holding the first bytes of seq and Uninit after them
Resized(seq, n) == [i \in 1..n |-> IF i <= Len(seq) THEN seq[i] ELSE Uninit]

\* ------------------------------------------------- String: the accessors

EmptyString ==
  [long |-> FALSE, len |-> 0, pol |-> FALSE, cap |-> 0,
   bytes |-> Fill(ShortCapacity, 0), heap |-> <<>>, ext |-> <<>>,
   oob |-> FALSE, failed |-> FALSE, ret |-> TRUE,
   over |-> FALSE, leaked |-> FALSE, badFree |-> FALSE]

longBit(s) == s.long

wrappedBit(s) == s.cap = 0

wrapped(s) == longBit(s) /\ wrappedBit(s)

String_length(s) == s.len

String_valid(s) == ~s.pol

String_capacity(s) ==
  IF longBit(s)
  THEN IF ~wrappedBit(s) THEN s.cap - NullLength ELSE 0
  ELSE ShortCapacity - NullLength

\* the value of _bytes[ShortLengthOffset] of a short string
ShortLengthByte(s) == s.len + (IF s.pol THEN 64 ELSE 0)

\* the number of bytes of the storage data() points at
DataSize(s) ==
  IF longBit(s) THEN (IF wrappedBit(s) THEN Len(s.ext) ELSE Len(s.heap)) ELSE ShortLength

\* data()[i]
String_at(s, i) ==
  IF i < 0 \/ i >= DataSize(s) THEN Uninit
  ELSE IF longBit(s) THEN (IF wrappedBit(s) THEN s.ext[i + 1] ELSE s.heap[i + 1])
  ELSE IF i < ShortLengthOffset THEN s.bytes[i + 1] ELSE ShortLengthByte(s)

\* data()[i] = v
String_put(s, i, v) ==
  IF i < 0 \/ i >= DataSize(s) THEN [s EXCEPT !.oob = TRUE]
  ELSE IF longBit(s)
       THEN IF wrappedBit(s) THEN [s EXCEPT !.ext[i + 1] = v] ELSE [s EXCEPT !.heap[i + 1] = v]
  ELSE IF i < ShortLengthOffset THEN [s EXCEPT !.bytes[i + 1] = v]
  ELSE [s EXCEPT !.len = v % 64, !.pol = (v % 128) >= 64]

RECURSIVE String_putAll(_, _, _)
String_putAll(s, i, vals) ==
  IF vals = <<>> THEN s ELSE String_putAll(String_put(s, i, Head(vals)), i + 1, Tail(vals))

\* memcpy(data() + dst, vals, Len(vals))
String_memcpy(s, dst, vals) == String_putAll(s, dst, vals)

\* memmove(data() + dst, data() + src, n)
String_memmove(s, dst, src, n) ==
  LET vals == [k \in 1..n |-> String_at(s, src + k - 1)]
      read == IF n > 0 /\ (src < 0 \/ src + n > DataSize(s)) THEN [s EXCEPT !.oob = TRUE] ELSE s
  IN  String_putAll(read, dst, vals)

\* the characters of the string: data()[0 .. length()-1]
String_chars(s) == [k \in 1..String_length(s) |-> String_at(s, k - 1)]

\* ------------------------------------------- String: the private helpers

\* String::reallocate(capacity, copyNullLength); ok is whether malloc/realloc
\* returns a block.
String_reallocate(s, capacity, copyNullLength, ok) ==
  IF longBit(s)
  THEN IF ~wrappedBit(s)
       THEN \* change the size of a long string (realloc keeps the old block on failure)
            IF ok
            THEN [s EXCEPT !.heap = Resized(s.heap, capacity), !.cap = capacity, !.ret = TRUE]
            ELSE [s EXCEPT !.ret = FALSE, !.failed = TRUE]
       ELSE LET length == s.len
                n == length + copyNullLength
                vals == [k \in 1..n |-> String_at(s, k - 1)]
                readOob == n > Len(s.ext)
            IN  IF capacity > ShortCapacity
                THEN \* convert wrapped to long: memcpy(chars, _chars, length + copyNullLength)
                     IF ok
                     THEN [s EXCEPT !.heap = Resized(Take(vals, capacity), capacity),
                                    !.cap = capacity,
                                    !.oob = @ \/ readOob \/ n > capacity,
                                    !.over = @ \/ n > capacity,
                                    !.ret = TRUE]
                     ELSE [s EXCEPT !.ret = FALSE, !.failed = TRUE]
                ELSE \* convert wrapped to short: memcpy(_bytes, _chars, length + copyNullLength),
                     \* then the length byte; bytes the copy does not reach keep the old words
                     [s EXCEPT !.long = FALSE,
                               !.cap = 0,
                               !.len = length % 64,
                               !.bytes = [i \in 1..ShortCapacity |-> IF i <= n THEN vals[i] ELSE Uninit],
                               !.oob = @ \/ readOob \/ n > ShortLength,
                               !.over = @ \/ n > ShortLength,
                               !.ret = TRUE]
  ELSE \* convert from short to long through char shortContent[ShortCapacity]
       IF ok
       THEN LET n == s.len + NullLength
                vals == [k \in 1..n |-> String_at(s, k - 1)]
            IN  [s EXCEPT !.long = TRUE,
                          !.cap = capacity,
                          !.heap = Resized(Take(vals, capacity), capacity),
                          !.bytes = Fill(ShortCapacity, Uninit),
                          !.oob = @ \/ n > ShortCapacity \/ n > capacity,
                          !.ret = TRUE]
       ELSE [s EXCEPT !.ret = FALSE, !.failed = TRUE]

\* String::writeLength(length)
String_writeLength(s, length) ==
  IF longBit(s)
  THEN String_put([s EXCEPT !.len = length], length, 0)
  ELSE String_put([s EXCEPT !.len = length % 64], length, 0)

\* an internalCapacity that marks the string when the block is not given
InternalCapacityMarkingFailure(s, capacity, ok) ==
  IF String_capacity(s) < capacity
  THEN LET r == String_reallocate(s,
                  computeNextCapacity(capacity + NullLength, String_capacity(s), ShortCapacity),
                  0, ok)
       IN  IF r.ret THEN r ELSE [r EXCEPT !.pol = TRUE]
  ELSE [s EXCEPT !.ret = TRUE]

\* String::internalCapacity(capacity)
String_internalCapacity(s, capacity, ok) ==
  IF String_capacity(s) < capacity
  THEN String_reallocate(s,
         computeNextCapacity(capacity + NullLength, String_capacity(s), ShortCapacity), 0, ok)
  ELSE [s EXCEPT !.ret = TRUE]

\* String::pollute()
String_pollute(s) == [s EXCEPT !.pol = TRUE]

\* String::unpollute()
String_unpollute(s) == [s EXCEPT !.pol = FALSE]

\* _chars = nullptr; _capacity = _length = 0
String_zero(s) ==
  [s EXCEPT !.long = FALSE, !.len = 0, !.pol = FALSE, !.cap = 0,
            !.bytes = Fill(ShortCapacity, 0)]

\* a secureErase that stops one byte early
SecureEraseButLast(s, length) == String_putAll(s, 0, Fill(length - 1, 0))

\* String::secureErase(data(), length)
String_secureErase(s, length) == String_putAll(s, 0, Fill(length, 0))

\* ------------------------------------------- String: the public methods

\* bool String::capacity(Length capacity)
String_setCapacity(s, capacity, ok) ==
  IF capacity >= 0 /\ capacity <= StrMaxLength
  THEN IF String_capacity(s) < capacity
       THEN String_reallocate(s,
              computeNextCapacity(capacity + NullLength, String_capacity(s), ShortCapacity),
              NullLength, ok)
       ELSE [s EXCEPT !.ret = TRUE]
  ELSE [s EXCEPT !.ret = FALSE]

\* bool String::length(Length length)
String_setLength(s, length, ok) ==
  IF length >= 0 /\ length <= StrMaxLength
  THEN IF String_length(s) # length
       THEN LET r == String_internalCapacity(s, length, ok)
            IN  IF r.ret THEN [String_writeLength(r, length) EXCEPT !.ret = TRUE]
                ELSE [r EXCEPT !.ret = FALSE]
       ELSE [s EXCEPT !.ret = TRUE]
  ELSE [s EXCEPT !.ret = FALSE]

\* void String::clear()
String_clear(s) ==
  IF longBit(s) /\ ~wrappedBit(s)
  THEN String_put([s EXCEPT !.pol = FALSE, !.len = 0], 0, 0)
  ELSE String_zero(s)

\* bool String::burn()
String_burn(s) ==
  IF ~longBit(s) \/ ~wrappedBit(s)
  THEN IF String_length(s) # 0
       THEN LET e == String_secureErase(s, String_length(s))
            IN  [e EXCEPT !.pol = FALSE, !.len = 0, !.ret = TRUE]
       ELSE [s EXCEPT !.ret = TRUE]
  ELSE [s EXCEPT !.ret = FALSE]

\* bool String::shrink()
String_shrink(s, ok) ==
  IF ~wrapped(s)
  THEN IF String_length(s) # 0
       THEN IF String_length(s) + NullLength <= ShortCapacity
            THEN IF longBit(s)
                 THEN \* memcpy(_bytes, _chars, length + NullLength); the block is not freed
                      LET n == String_length(s) + NullLength
                      IN  [s EXCEPT !.long = FALSE, !.cap = 0, !.heap = <<>>,
                                    !.bytes = [i \in 1..ShortCapacity |->
                                                 IF i <= n THEN String_at(s, i - 1) ELSE Uninit],
                                    !.leaked = TRUE,
                                    !.ret = TRUE]
                 ELSE [s EXCEPT !.ret = TRUE]
            ELSE String_reallocate(s, String_length(s) + NullLength, NullLength, ok)
       ELSE [String_zero(s) EXCEPT !.heap = <<>>, !.ret = TRUE]
  ELSE [s EXCEPT !.ret = FALSE]

\* bool String::unwrap()
String_unwrap(s, ok) ==
  IF ~wrapped(s) THEN [s EXCEPT !.ret = TRUE]
  ELSE String_reallocate(s, s.len + NullLength, NullLength, ok)

\* ::free(_chars): a block the String owns is released; any other pointer is
\* not one free may be given
String_free(s) ==
  IF longBit(s) /\ ~wrappedBit(s) /\ s.heap # <<>>
  THEN [s EXCEPT !.heap = <<>>]
  ELSE [s EXCEPT !.badFree = TRUE]

\* String& String::operator = (String&& source): the receiver after the call
String_moveAssign(s, source) ==
  LET f == IF longBit(s) /\ ~wrappedBit(s) THEN String_free(s) ELSE s
  IN  [source EXCEPT !.oob = f.oob, !.over = f.over, !.leaked = f.leaked,
                     !.badFree = f.badFree, !.failed = FALSE, !.ret = TRUE]

\* String::~String(): what is left of the object's memory
String_destroy(s) ==
  IF longBit(s) /\ ~wrappedBit(s) THEN String_free(s) ELSE s

\* Length findStr(String const& string, String const& match, Length position, Length length = 0)
\* with match holding the characters matchChars
findStr(s, matchChars, position0, length0) ==
  LET stringLength == String_length(s)
      l0 == IF length0 = 0 THEN stringLength ELSE length0
      l1 == IF position0 < 0 THEN l0 + position0 ELSE l0
      p1 == IF position0 < 0 THEN 0 ELSE position0
      over == p1 + l1 > stringLength
      length == IF over THEN max(stringLength - p1, 0) ELSE l1
      position == IF over THEN min(p1, stringLength) ELSE p1
      matchLength == Len(matchChars)
      matchMaxLength == min(position + length, stringLength) - matchLength
      hits == {i \in position..matchMaxLength :
                 \A k \in 1..matchLength : String_at(s, i + k - 1) = matchChars[k]}
  IN  IF length # 0 /\ matchLength # 0 /\ hits # {}
      THEN CHOOSE i \in hits : \A j \in hits : i <= j
      ELSE NotFound

\* source.data()[i] of an operand string: its characters, then the terminator
Source_at(source, i) ==
  IF i >= 0 /\ i < Len(source.chars) THEN source.chars[i + 1]
  ELSE IF i = Len(source.chars) THEN 0 ELSE Uninit

\* the n bytes at source.data() + position
Source_bytes(source, position, n) == [k \in 1..n |-> Source_at(source, position + k - 1)]

\* bool String::assign(String const& source)
String_assign(s, source, ok) ==
  LET length == Len(source.chars)
      r == IF String_length(s) # length
           THEN LET c == String_internalCapacity(s, length, ok)
                IN  IF c.ret THEN [String_writeLength(c, length) EXCEPT !.ret = TRUE]
                    ELSE [c EXCEPT !.ret = FALSE]
           ELSE [s EXCEPT !.ret = TRUE]
  IN  IF ~r.ret THEN r
      ELSE LET m == String_memcpy(r, 0, Source_bytes(source, 0, length))
           IN  [(IF source.pol THEN String_pollute(m) ELSE m) EXCEPT !.ret = TRUE]

\* ---------------------------------------- String: the internal primitives

\* bool String::internalAppend(char suffix)
String_internalAppendChar(s, suffix, ok) ==
  LET length == String_length(s)
  IN  IF length < StrMaxLength
      THEN LET c == String_internalCapacity(s, length + 1, ok)
           IN  IF ~c.ret THEN c
               ELSE [String_writeLength(String_put(c, length, suffix), length + 1) EXCEPT !.ret = TRUE]
      ELSE [s EXCEPT !.ret = FALSE]

\* bool String::internalAppend(String const& suffix)
String_internalAppend(s, suffix, ok) ==
  LET length == String_length(s)
      overflow == length > StrMaxLength - Len(suffix.chars)
      suffixLength == IF overflow THEN StrMaxLength - length ELSE Len(suffix.chars)
      destLength == IF overflow THEN StrMaxLength ELSE length + suffixLength
  IN  IF suffixLength # 0
      THEN LET c == String_internalCapacity(s, destLength, ok)
           IN  IF ~c.ret THEN c
               ELSE [String_writeLength(
                       String_memcpy(c, length, Source_bytes(suffix, 0, suffixLength)),
                       destLength) EXCEPT !.ret = ~overflow]
      ELSE [s EXCEPT !.ret = ~overflow]

\* bool String::internalPrepend(char prefix)
String_internalPrependChar(s, prefix, ok) ==
  LET length == String_length(s)
  IN  IF length < StrMaxLength
      THEN LET c == String_internalCapacity(s, length + 1, ok)
           IN  IF ~c.ret THEN c
               ELSE LET m == IF length # 0 THEN String_memmove(c, 1, 0, length) ELSE c
                    IN  [String_writeLength(String_put(m, 0, prefix), length + 1) EXCEPT !.ret = TRUE]
      ELSE [s EXCEPT !.ret = FALSE]

\* bool String::internalPrepend(String const& prefix)
String_internalPrepend(s, prefix, ok) ==
  LET prefixLength == Len(prefix.chars)
      overflow == String_length(s) > StrMaxLength - prefixLength
      length == IF overflow THEN StrMaxLength - prefixLength ELSE String_length(s)
      destLength == IF overflow THEN StrMaxLength ELSE length + prefixLength
  IN  IF prefixLength # 0
      THEN LET c == String_internalCapacity(s, destLength, ok)
           IN  IF ~c.ret THEN c
               ELSE LET m == IF length # 0 THEN String_memmove(c, prefixLength, 0, length) ELSE c
                    IN  [String_writeLength(
                           String_memcpy(m, 0, Source_bytes(prefix, 0, prefixLength)),
                           destLength) EXCEPT !.ret = ~overflow]
      ELSE [s EXCEPT !.ret = TRUE]

\* bool String::internalConcatenate(String const& prefix, char suffix)
String_internalConcatenateSC(s, prefix, suffix, ok) ==
  LET prefixLength == Len(prefix.chars)
      destLength == IF prefixLength < StrMaxLength THEN prefixLength + 1 ELSE prefixLength
      c == String_internalCapacity(s, destLength, ok)
  IN  IF ~c.ret THEN c
      ELSE LET m == IF prefixLength # 0
                    THEN String_memcpy(c, 0, Source_bytes(prefix, 0, prefixLength)) ELSE c
               n == IF destLength > prefixLength THEN String_put(m, prefixLength, suffix) ELSE m
           IN  [String_writeLength(n, destLength) EXCEPT !.ret = destLength > prefixLength]

\* bool String::internalConcatenate(char prefix, String const& suffix)
String_internalConcatenateCS(s, prefix, suffix, ok) ==
  LET overflow == Len(suffix.chars) >= StrMaxLength
      suffixLength == IF overflow THEN StrMaxLength - 1 ELSE Len(suffix.chars)
      destLength == IF overflow THEN StrMaxLength ELSE suffixLength + 1
      c == String_internalCapacity(s, destLength, ok)
  IN  IF ~c.ret THEN c
      ELSE LET m == IF suffixLength # 0
                    THEN String_memcpy(c, 1, Source_bytes(suffix, 0, suffixLength)) ELSE c
           IN  [String_writeLength(String_put(m, 0, prefix), destLength) EXCEPT !.ret = ~overflow]

\* bool String::internalConcatenate(String const& prefix, String const& suffix)
String_internalConcatenate(s, prefix, suffix, ok) ==
  LET prefixLength == Len(prefix.chars)
      overflow == Len(suffix.chars) > StrMaxLength - prefixLength
      suffixLength == IF overflow THEN StrMaxLength - prefixLength ELSE Len(suffix.chars)
      destLength == IF overflow THEN StrMaxLength ELSE prefixLength + suffixLength
      c == String_internalCapacity(s, destLength, ok)
  IN  IF ~c.ret THEN c
      ELSE LET m == IF prefixLength # 0
                    THEN String_memcpy(c, 0, Source_bytes(prefix, 0, prefixLength)) ELSE c
               n == IF suffixLength # 0
                    THEN String_memcpy(m, prefixLength, Source_bytes(suffix, 0, suffixLength)) ELSE m
           IN  [String_writeLength(n, destLength) EXCEPT !.ret = ~overflow]

\* bool String::internalCopy(String const& source, Length sourcePosition, Length sourceLength)
String_internalCopy(s, source, sourcePosition0, sourceLength0, ok) ==
  LET actualSourceLength == Len(source.chars)
      l1 == IF sourceLength0 = NotFound THEN actualSourceLength ELSE sourceLength0
  IN  IF l1 >= 0
      THEN LET l2 == IF sourcePosition0 < 0 THEN l1 + sourcePosition0 ELSE l1
               sourcePosition == IF sourcePosition0 < 0 THEN 0 ELSE sourcePosition0
               sourceLength == IF sourcePosition + l2 > actualSourceLength
                               THEN max(actualSourceLength - sourcePosition, 0) ELSE l2
           IN  IF sourceLength > 0
               THEN LET c == String_internalCapacity(s, sourceLength, ok)
                    IN  IF ~c.ret THEN c
                        ELSE [String_writeLength(
                                String_memcpy(c, 0, Source_bytes(source, sourcePosition, sourceLength)),
                                sourceLength) EXCEPT !.ret = TRUE]
               ELSE [s EXCEPT !.ret = TRUE]
      ELSE [s EXCEPT !.ret = FALSE]

\* bool String::internalReplace(source, position, length, sourcePosition, sourceLength);
\* ok is the allocation of unwrap(), ok2 the one of internalCapacity().
String_internalReplace(s, source, position0, length0, sourcePosition0, sourceLength0, ok, ok2) ==
  LET actualSourceLength == Len(source.chars)
      actualLength == String_length(s)
      l1 == max(IF length0 = NotFound THEN actualLength ELSE length0, 0)
      sl1 == max(IF sourceLength0 = NotFound THEN actualSourceLength ELSE sourceLength0, 0)
  IN  IF l1 # 0 \/ sl1 # 0
      THEN LET sl2 == IF sourcePosition0 < 0 THEN sl1 + sourcePosition0 ELSE sl1
               sp2 == IF sourcePosition0 < 0 THEN 0 ELSE sourcePosition0
               sourceOver == sp2 + sl2 > actualSourceLength
               sourceLength == IF sourceOver THEN max(actualSourceLength - sp2, 0) ELSE sl2
               sourcePosition == IF sourceOver THEN min(sp2, actualSourceLength) ELSE sp2
               l2 == IF position0 < 0 THEN l1 + position0 ELSE l1
               p2 == IF position0 < 0 THEN 0 ELSE position0
               over == p2 + l2 > actualLength
               length == IF over THEN max(actualLength - p2, 0) ELSE l2
               position == IF over THEN min(p2, actualLength) ELSE p2
               lengthDiff == sourceLength - length
               u == IF lengthDiff # 0 \/ sourceLength # 0 THEN String_unwrap(s, ok) ELSE [s EXCEPT !.ret = TRUE]
           IN  IF ~u.ret THEN u
               ELSE IF lengthDiff > 0 /\ actualLength > StrMaxLength - lengthDiff
                    THEN [u EXCEPT !.ret = FALSE]
               ELSE LET c == IF lengthDiff > 0
                             THEN String_internalCapacity(u, actualLength + lengthDiff, ok2)
                             ELSE [u EXCEPT !.ret = TRUE]
                    IN  IF ~c.ret THEN c
                        ELSE LET moveLength == actualLength - (position + length)
                                 m == IF lengthDiff # 0 /\ moveLength # 0
                                      THEN String_memmove(c, position + sourceLength, position + length,
                                                          moveLength)
                                      ELSE c
                                 w == IF sourceLength # 0
                                      THEN String_memcpy(m, position,
                                             Source_bytes(source, sourcePosition, sourceLength))
                                      ELSE m
                                 z == IF lengthDiff # 0
                                      THEN String_writeLength(w, actualLength + lengthDiff) ELSE w
                             IN  [z EXCEPT !.ret = TRUE]
      ELSE [s EXCEPT !.ret = TRUE]

\* bool String::internalInsert(source, position, sourcePosition, sourceLength)
String_internalInsert(s, source, position0, sourcePosition0, sourceLength0, ok) ==
  LET actualSourceLength == Len(source.chars)
      sl1 == max(IF sourceLength0 = NotFound THEN actualSourceLength ELSE sourceLength0, 0)
  IN  IF sl1 # 0
      THEN LET sl2 == IF sourcePosition0 < 0 THEN sl1 + sourcePosition0 ELSE sl1
               sp2 == IF sourcePosition0 < 0 THEN 0 ELSE sourcePosition0
               sourceOver == sp2 + sl2 > actualSourceLength
               sourceLength == IF sourceOver THEN max(actualSourceLength - sp2, 0) ELSE sl2
               sourcePosition == IF sourceOver THEN min(sp2, actualSourceLength) ELSE sp2
               currentLength == String_length(s)
               position == saturate(position0, 0, currentLength)
           IN  IF sourceLength # 0
               THEN LET c == String_internalCapacity(s, currentLength + sourceLength, ok)
                    IN  IF ~c.ret THEN c
                        ELSE LET moveLength == currentLength - position
                                 m == IF moveLength # 0
                                      THEN String_memmove(c, position + sourceLength, position, moveLength)
                                      ELSE c
                                 w == String_memcpy(m, position,
                                        Source_bytes(source, sourcePosition, sourceLength))
                             IN  [String_writeLength(w, currentLength + sourceLength) EXCEPT !.ret = TRUE]
               ELSE [s EXCEPT !.ret = TRUE]
      ELSE [s EXCEPT !.ret = TRUE]

\* bool String::insert(char charCode, Length position)
String_insertChar(s, charCode, position0, ok) ==
  LET currentLength == String_length(s)
      position == saturate(position0, 0, currentLength)
      c == String_internalCapacity(s, currentLength + 1, ok)
  IN  IF ~c.ret THEN c
      ELSE LET moveLength == currentLength - position
               m == IF moveLength # 0 THEN String_memmove(c, position + 1, position, moveLength) ELSE c
           IN  [String_writeLength(String_put(m, position, charCode), currentLength + 1)
                  EXCEPT !.ret = TRUE]

\* String& String::erase(Length position, Length length)
String_erase(s, position0, length0, ok) ==
  LET l1 == max(IF length0 = NotFound THEN String_length(s) ELSE length0, 0)
  IN  IF l1 # 0
      THEN LET currentLength == String_length(s)
               l2 == IF position0 < 0 THEN l1 + position0 ELSE l1
               p2 == IF position0 < 0 THEN 0 ELSE position0
               over == p2 + l2 > currentLength
               length == IF over THEN max(currentLength - p2, 0) ELSE l2
               position == IF over THEN min(p2, currentLength) ELSE p2
           IN  IF length # 0
               THEN LET u == String_unwrap(s, ok)
                    IN  IF ~u.ret THEN String_pollute(u)
                        ELSE LET moveLength == currentLength - (position + length)
                                 m == IF moveLength # 0
                                      THEN String_memmove(u, position, position + length, moveLength)
                                      ELSE u
                             IN  String_writeLength(m, currentLength - length)
               ELSE s
      ELSE s

\* ------------------------------------- String: the polluting public calls

PolluteUnless(r, good) == IF r.ret /\ good THEN r ELSE String_pollute(r)

\* String& String::append(char suffix)
String_appendChar(s, suffix, ok) == PolluteUnless(String_internalAppendChar(s, suffix, ok), TRUE)

\* String& String::append(String const& suffix)
String_append(s, suffix, ok) == PolluteUnless(String_internalAppend(s, suffix, ok), ~suffix.pol)

\* String& String::prepend(char prefix)
String_prependChar(s, prefix, ok) == PolluteUnless(String_internalPrependChar(s, prefix, ok), TRUE)

\* String& String::prepend(String const& prefix): the prefix's pollute bit is not looked at
String_prepend(s, prefix, ok) == PolluteUnless(String_internalPrepend(s, prefix, ok), TRUE)

\* String& String::concatenate(String const& prefix, String const& suffix)
String_concatenate(s, prefix, suffix, ok) ==
  PolluteUnless(String_internalConcatenate(s, prefix, suffix, ok), ~prefix.pol /\ ~suffix.pol)

\* String& String::concatenate(String const& prefix, char suffix)
String_concatenateSC(s, prefix, suffix, ok) ==
  PolluteUnless(String_internalConcatenateSC(s, prefix, suffix, ok), ~prefix.pol)

\* String& String::concatenate(char prefix, String const& suffix)
String_concatenateCS(s, prefix, suffix, ok) ==
  PolluteUnless(String_internalConcatenateCS(s, prefix, suffix, ok), ~suffix.pol)

\* String& String::copy(String const& source, Length sourcePosition, Length sourceLength)
String_copy(s, source, sourcePosition, sourceLength, ok) ==
  PolluteUnless(String_internalCopy(s, source, sourcePosition, sourceLength, ok), ~source.pol)

\* String& String::replace(source, position, length, sourcePosition, sourceLength)
String_replace(s, source, position, length, sourcePosition, sourceLength, ok, ok2) ==
  PolluteUnless(
    String_internalReplace(s, source, position, length, sourcePosition, sourceLength, ok, ok2),
    ~source.pol)

\* String& String::insert(String const& source, Length position)
String_insert(s, source, position, ok) ==
  PolluteUnless(String_internalInsert(s, source, position, 0, Len(source.chars), ok), ~source.pol)

\* ------------------------------------------ String: the ways to make one

\* String::String(char const* string), string not NULL
String_fromCString(string, ok) ==
  LET length == Len(string)
  IN  IF length <= StrMaxLength
      THEN LET r == String_setLength(EmptyString, length, ok)
           IN  IF r.ret
               THEN [String_memcpy(r, 0, string \o <<0>>) EXCEPT !.ret = TRUE]
               ELSE [String_pollute(r) EXCEPT !.ret = TRUE]
      ELSE String_pollute(EmptyString)

\* String::Invalid()
String_Invalid == String_pollute(EmptyString)

\* String::Wrap(char const* string, Length length), string not NULL and null-terminated;
\* aligned is whether the pointer is a multiple of alignof(String).
String_Wrap(string, length0, aligned, ok) ==
  IF length0 >= 0 /\ length0 <= StrMaxLength
  THEN LET length == IF length0 = 0 THEN Len(string) ELSE length0
       IN  IF length <= ShortCapacity
           THEN \* memcpy(res._bytes, string, length); res._bytes[ShortLengthOffset] = length
                [EmptyString EXCEPT !.bytes = [i \in 1..ShortCapacity |->
                                                 IF i <= length THEN string[i] ELSE 0],
                                    !.len = length]
           ELSE IF ~aligned
           THEN LET r == String_setLength(EmptyString, length, ok)
                IN  IF r.ret
                    THEN [String_memcpy(r, 0, string \o <<0>>) EXCEPT !.ret = TRUE]
                    ELSE [String_pollute(r) EXCEPT !.ret = TRUE]
           ELSE [EmptyString EXCEPT !.long = TRUE, !.len = length, !.cap = 0,
                                    !.bytes = Fill(ShortCapacity, Uninit),
                                    !.ext = string \o <<0>>]
  ELSE String_pollute(EmptyString)

\* String operator + (String const& prefix, String const& suffix)
String_plus(prefix, suffix, ok) ==
  PolluteUnless(String_internalConcatenate(EmptyString, prefix, suffix, ok),
                ~prefix.pol /\ ~suffix.pol)

\* String operator + (String const& prefix, char suffix)
String_plusSC(prefix, suffix, ok) ==
  PolluteUnless(String_internalConcatenateSC(EmptyString, prefix, suffix, ok), ~prefix.pol)

\* String operator + (char prefix, String const& suffix)
String_plusCS(prefix, suffix, ok) ==
  PolluteUnless(String_internalConcatenateCS(EmptyString, prefix, suffix, ok), ~suffix.pol)

\* String operator + (String const& prefix, char const* suffix), suffix not NULL:
\* the test is on the pointer suffix, which is never NULL here
String_plusSP(prefix, suffix, ok) ==
  PolluteUnless(
    String_internalConcatenate(EmptyString, prefix, [chars |-> suffix, pol |-> FALSE], ok), TRUE)

\* String operator + (char const* prefix, String const& suffix), prefix not NULL
String_plusPS(prefix, suffix, ok) ==
  PolluteUnless(
    String_internalConcatenate(EmptyString, [chars |-> prefix, pol |-> FALSE], suffix, ok),
    ~suffix.pol)

\* ---------------------------------------------------------------- Array
\* An Array object is the record arr:
\*   elems    the constructed elements _data[0 .. _length-1]
\*   capacity _capacity without its pollute bit
\*   pol      the PolluteBit of _capacity
\*   failed   set when alloc returned NULL during the last call
\*   ret      what the last call returned, as a bool
\*   index    what the last add returned (NotFound otherwise)
\*   oob      set once a call has gone through signed overflow of a Length or
\*            touched an element outside _data[0 .. _length-1]: from there on the
\*            object is whatever the build made of it

\* Containers::MaxLength (INT64_MAX in the source), scaled down so that the
\* overflow branches are reachable.
ArrMaxLength == 5

Elements == {1, 2}

\* Array::Array()
EmptyArray ==
  [elems |-> <<>>, capacity |-> 0, pol |-> FALSE, failed |-> FALSE, ret |-> TRUE,
   index |-> NotFound, oob |-> FALSE]

\* a value the type Length holds: MinLength .. MaxLength
LengthFits(value) == value >= 0 - ArrMaxLength - 1 /\ value <= ArrMaxLength

Array_length(a) == Len(a.elems)

Array_capacity(a) == a.capacity

Array_valid(a) == ~a.pol

\* Containers::computeCapacity(targetCapacity, currentCapacity)
computeCapacity(targetCapacity, currentCapacity) ==
  IF targetCapacity < floorPowerOfTwo(ArrMaxLength)
  THEN computeNextCapacity(targetCapacity, currentCapacity, 0)
  ELSE targetCapacity

\* a reallocate that records the new capacity before it has the block
ReallocateCapacityFirst(a, capacity, ok) ==
  [a EXCEPT !.capacity = capacity, !.ret = ok, !.failed = ~ok]

\* Array::reallocate(capacity): the elements move to the new block
Array_reallocate(a, capacity, ok) ==
  LET polluteBit == a.pol
  IN  IF ok
      THEN [a EXCEPT !.capacity = capacity, !.pol = polluteBit, !.ret = TRUE]
      ELSE [a EXCEPT !.ret = FALSE, !.failed = TRUE]

\* Array::deallocate(): destroys the elements and frees the block
Array_deallocate(a) == [a EXCEPT !.elems = <<>>]

\* _data = nullptr; _capacity = _length = 0u
Array_zero(a) == [a EXCEPT !.elems = <<>>, !.capacity = 0, !.pol = FALSE]

\* Array::pollute()
Array_pollute(a) == [a EXCEPT !.pol = TRUE]

\* Array::unpollute()
Array_unpollute(a) == [a EXCEPT !.pol = FALSE]

\* a capacity(n) that always moves the elements to a block of exactly n
SetCapacityExactly(a, capacity0, ok) == Array_reallocate(a, max(capacity0, 1), ok)

\* bool Array::capacity(Length capacity)
Array_setCapacity(a, capacity0, ok) ==
  LET capacity == max(capacity0, 0)
  IN  IF Array_capacity(a) < capacity
      THEN Array_reallocate(a, computeCapacity(capacity, Array_capacity(a)), ok)
      ELSE [a EXCEPT !.ret = TRUE]

\* bool Array::length(Length length, Element const& value)
Array_setLength(a, length0, value, ok) ==
  LET length == max(length0, 0)
      currentLength == Array_length(a)
  IN  IF currentLength # length
      THEN IF currentLength < length
           THEN LET c == Array_setCapacity(a, length, ok)
                IN  IF ~c.ret THEN [c EXCEPT !.ret = FALSE]
                    ELSE [c EXCEPT !.elems = a.elems \o Fill(length - currentLength, value),
                                   !.ret = TRUE]
           ELSE [a EXCEPT !.elems = Take(a.elems, length), !.ret = TRUE]
      ELSE [a EXCEPT !.ret = TRUE]

\* void Array::clear()
Array_clear(a) == [a EXCEPT !.elems = <<>>, !.pol = FALSE]

\* bool Array::shrink()
Array_shrink(a, ok) ==
  IF Array_length(a) # Array_capacity(a)
  THEN IF Array_length(a) # 0
       THEN Array_reallocate(a, Array_length(a), ok)
       ELSE [Array_zero(Array_deallocate(a)) EXCEPT !.ret = TRUE]
  ELSE [a EXCEPT !.ret = TRUE]

\* void Array::purge()
Array_purge(a) ==
  IF Array_length(a) # 0 THEN Array_zero(Array_deallocate(a)) ELSE a

\* bool Array::populate(Length count, Element const& value): every new element is
\* constructed at _data + length, _length is not changed, and the Length the
\* function returns (length or NotFound) is converted to bool
Array_populate(a, count0, value, ok) ==
  LET count == max(count0, 0)
      length == Array_length(a)
  IN  IF length <= ArrMaxLength - count
      THEN LET c == Array_setCapacity(a, length + count, ok)
           IN  IF c.ret THEN [c EXCEPT !.ret = (length # 0)]
               ELSE [c EXCEPT !.ret = (NotFound # 0)]
      ELSE [a EXCEPT !.ret = (NotFound # 0)]

\* Length Array::elementAdd(elementAssign)
Array_elementAdd(a, element, ok) ==
  LET length == Array_length(a)
  IN  IF length < ArrMaxLength
      THEN LET c == Array_setCapacity(a, length + 1, ok)
           IN  IF c.ret
               THEN [c EXCEPT !.elems = Append(a.elems, element), !.index = length]
               ELSE [c EXCEPT !.index = NotFound]
      ELSE [a EXCEPT !.index = NotFound, !.ret = FALSE]

\* bool Array::elementInsert(index, elementAssign)
Array_elementInsert(a, index0, element, ok) ==
  LET length == Array_length(a)
  IN  IF length < ArrMaxLength
      THEN LET index == saturate(index0, 0, length)
               capacity == Array_capacity(a)
               inserted == SubSeq(a.elems, 1, index) \o <<element>>
                             \o SubSeq(a.elems, index + 1, length)
           IN  IF length + 1 <= capacity
               THEN [a EXCEPT !.elems = inserted, !.ret = TRUE]
               ELSE LET polluteBit == a.pol
                        nextCapacity == computeCapacity(length + 1, capacity)
                    IN  IF ~ok THEN [a EXCEPT !.ret = FALSE, !.failed = TRUE]
                        ELSE [a EXCEPT !.elems = inserted, !.capacity = nextCapacity,
                                       !.pol = polluteBit, !.ret = TRUE]
      ELSE [a EXCEPT !.ret = FALSE]

\* Length Array::add(Element const& element)
Array_add(a, element, ok) == Array_elementAdd(a, element, ok)

\* bool Array::insert(Length index, Element const& element)
Array_insert(a, index, element, ok) == Array_elementInsert(a, index, element, ok)

\* Array& Array::addp(Element const& element)
Array_addp(a, element, ok) ==
  LET r == Array_add(a, element, ok)
  IN  IF r.index = NotFound THEN Array_pollute(r) ELSE r

\* Array& Array::insertp(Length index, Element const& element)
Array_insertp(a, index, element, ok) ==
  LET r == Array_insert(a, index, element, ok)
  IN  IF ~r.ret THEN Array_pollute(r) ELSE r

\* an erase(index) that drops the last element whatever the index
EraseAtDroppingLast(a, index) ==
  LET length == Array_length(a)
  IN  IF index >= 0 /\ index < length
      THEN [a EXCEPT !.elems = SubSeq(a.elems, 1, length - 1), !.ret = TRUE]
      ELSE [a EXCEPT !.ret = FALSE]

\* bool Array::erase(Length index)
Array_eraseAt(a, index) ==
  LET length == Array_length(a)
  IN  IF index >= 0 /\ index < length
      THEN [a EXCEPT !.elems = SubSeq(a.elems, 1, index) \o SubSeq(a.elems, index + 2, length),
                     !.ret = TRUE]
      ELSE [a EXCEPT !.ret = FALSE]

\* bool Array::erase(Length start, Length count): count += start and
\* start + count are computed in Length, a signed type, so that a sum outside
\* the type is undefined
Array_erase(a, start0, count0) ==
  LET length == Array_length(a)
  IN  IF length # 0
      THEN LET count == IF start0 < 0 THEN count0 + start0 ELSE count0
               start == IF start0 < 0 THEN 0 ELSE start0
           IN  IF ~LengthFits(count) THEN [a EXCEPT !.oob = TRUE]
               ELSE IF start >= length \/ count <= 0 THEN [a EXCEPT !.ret = FALSE]
               ELSE IF ~LengthFits(start + count) THEN [a EXCEPT !.oob = TRUE]
               ELSE LET right == min(start + count, length)
                    IN  [a EXCEPT !.elems = SubSeq(a.elems, 1, start)
                                              \o SubSeq(a.elems, right + 1, length),
                                  !.ret = TRUE]
      ELSE [a EXCEPT !.ret = FALSE]

\* Array::Array(Length capacity)
Array_ofCapacity(capacity, ok) ==
  LET c == Array_setCapacity(EmptyArray, max(capacity, 0), ok)
  IN  IF ~c.ret THEN Array_pollute(c) ELSE c

\* Array::Array(Length length, Element const& value)
Array_ofLength(length, value, ok) ==
  LET p == Array_populate(EmptyArray, length, value, ok)
  IN  IF ~p.ret THEN Array_pollute(p) ELSE p

\* Array::Array(std::initializer_list<Element>): the loop copies every element
\* of the list, also one past the block of min(size, MaxLength) elements
Array_ofList(elements, ok) ==
  LET length == min(Len(elements), ArrMaxLength)
      made == IF length # 0
              THEN IF ok
                   THEN [EmptyArray EXCEPT !.elems = Take(elements, length),
                                           !.capacity = length,
                                           !.oob = Len(elements) > length]
                   ELSE [Array_pollute(EmptyArray) EXCEPT !.failed = TRUE]
              ELSE EmptyArray
  IN  IF Len(elements) > ArrMaxLength THEN Array_pollute(made) ELSE made

\* Array& Array::operator = (Array const& array): purge(), then a block of
\* exactly array.length() elements; _length = _capacity = length also writes
\* the pollute bit
Array_assign(a, array, ok) ==
  LET p == Array_purge(a)
      length == Array_length(array)
  IN  IF length # 0
      THEN IF ok
           THEN [p EXCEPT !.elems = array.elems, !.capacity = length, !.pol = FALSE]
           ELSE [Array_pollute(p) EXCEPT !.failed = TRUE]
      ELSE p

\* DefaultCompare::perform(left, right)
DefaultCompare(left, right) ==
  IF left < right THEN 0 - 1 ELSE IF right < left THEN 1 ELSE 0

\* Array::swap(first, second), on the elements _data[0 ..]
Array_swap(elems, first, second) ==
  [elems EXCEPT ![first + 1] = elems[second + 1], ![second + 1] = elems[first + 1]]

\* the rounds of the partition loop that are followed before the call counts
\* as one that does not return
SortRounds == ArrMaxLength + 2

\* while (left <= last && comparer(_data[left], pivot) < 0) ++left;
RECURSIVE ScanLeft(_, _, _, _)
ScanLeft(elems, left, last, pivot) ==
  IF left <= last /\ DefaultCompare(elems[left + 1], pivot) < 0
  THEN ScanLeft(elems, left + 1, last, pivot)
  ELSE left

\* a scan from the right that stops at an element equal to the pivot
RECURSIVE ScanRightStrict(_, _, _, _)
ScanRightStrict(elems, right, first, pivot) ==
  IF right > first /\ DefaultCompare(elems[right + 1], pivot) > 0
  THEN ScanRightStrict(elems, right - 1, first, pivot)
  ELSE right

\* while (right > first && comparer(_data[right], pivot) >= 0) --right;
RECURSIVE ScanRight(_, _, _, _)
ScanRight(elems, right, first, pivot) ==
  IF right > first /\ DefaultCompare(elems[right + 1], pivot) >= 0
  THEN ScanRight(elems, right - 1, first, pivot)
  ELSE right

\* while (left <= right) { ... } of partitionQuickSort; pivot is a reference
\* to _data[first]
RECURSIVE PartitionLoop(_, _, _, _, _, _)
PartitionLoop(elems, first, last, left, right, rounds) ==
  IF left <= right
  THEN IF rounds = 0
       THEN [elems |-> elems, right |-> right, done |-> FALSE]
       ELSE LET l == ScanLeft(elems, left, last, elems[first + 1])
                r == ScanRight(elems, right, first, elems[first + 1])
            IN  PartitionLoop(IF l < r THEN Array_swap(elems, l, r) ELSE elems,
                              first, last, l, r, rounds - 1)
  ELSE [elems |-> elems, right |-> right, done |-> TRUE]

\* Length Array::partitionQuickSort(first, last, comparer)
Array_partitionQuickSort(elems, first, last) ==
  LET p == PartitionLoop(elems, first, last, first + 1, last, SortRounds)
  IN  [elems |-> IF first # p.right THEN Array_swap(p.elems, first, p.right) ELSE p.elems,
       split |-> p.right,
       done  |-> p.done]

\* void Array::recursiveQuickSort(first, last, comparer), on [elems, done]
RECURSIVE Array_recursiveQuickSort(_, _, _)
Array_recursiveQuickSort(s, first, last) ==
  IF first < last /\ s.done
  THEN LET middle == first + (last - first) \div 2
           pivoted == IF first # middle THEN Array_swap(s.elems, first, middle) ELSE s.elems
           p == Array_partitionQuickSort(pivoted, first, last)
           lower == Array_recursiveQuickSort([elems |-> p.elems, done |-> p.done],
                                             first, p.split - 1)
       IN  Array_recursiveQuickSort(lower, p.split + 1, last)
  ELSE s

\* void Array::quickSort(first, last, comparer); ret is whether the call returns
Array_quickSort(a, first, last) ==
  LET length == Array_length(a)
  IN  IF length > 1
      THEN LET s == Array_recursiveQuickSort([elems |-> a.elems, done |-> TRUE],
                                             saturate(first, 0, length - 1),
                                             saturate(last, 0, length - 1))
           IN  [a EXCEPT !.elems = s.elems, !.ret = s.done]
      ELSE a

\* a search that goes on in the half the element is not in
RECURSIVE SearchLoopWrongHalf(_, _, _, _)
SearchLoopWrongHalf(elems, element, left, right) ==
  IF left <= right
  THEN LET pivot == left + (right - left) \div 2
           res == DefaultCompare(elems[pivot + 1], element)
       IN  IF res = 0 THEN pivot
           ELSE IF res > 0 THEN SearchLoopWrongHalf(elems, element, pivot + 1, right)
           ELSE SearchLoopWrongHalf(elems, element, left, pivot - 1)
  ELSE NotFound

\* while (left <= right) { ... } of binarySearch
RECURSIVE SearchLoop(_, _, _, _)
SearchLoop(elems, element, left, right) ==
  IF left <= right
  THEN LET pivot == left + (right - left) \div 2
           res == DefaultCompare(elems[pivot + 1], element)
       IN  IF res = 0 THEN pivot
           ELSE IF res < 0 THEN SearchLoop(elems, element, pivot + 1, right)
           ELSE SearchLoop(elems, element, left, pivot - 1)
  ELSE NotFound

\* Length Array::binarySearch(element, first, last, comparer); index is the
\* Length it returns
Array_binarySearch(a, element, first, last) ==
  LET length == Array_length(a)
  IN  IF length # 0
      THEN [a EXCEPT !.index = SearchLoop(a.elems, element,
                                          saturate(first, 0, length - 1),
                                          saturate(last, 0, length - 1))]
      ELSE [a EXCEPT !.index = NotFound]

\* ------------------------------------------------------ FlatMap, FlatSet
\* A FlatMap is its Array _pairs of [key, value] records, a FlatSet its Array
\* _values; index of the Array record holds the index of the Location a call
\* returns.  Keys and set values are texts: 2k and 2k + 1 stand for the two
\* spellings, lower and upper case, of text k.

\* what compareText does to the letters' case
FoldCase(text) == text \div 2

\* utility::TextComparer, the comparer of the containers
TextComparer(left, right) == DefaultCompare(FoldCase(left), FoldCase(right))

\* while (left <= right) { ... } of FlatMap::search
RECURSIVE FlatMap_searchLoop(_, _, _, _)
FlatMap_searchLoop(pairs, key, left, right) ==
  IF left <= right
  THEN LET pivot == (left + right) \div 2
           res == TextComparer(pairs[pivot + 1].key, key)
       IN  IF res < 0 THEN FlatMap_searchLoop(pairs, key, pivot + 1, right)
           ELSE IF res > 0 THEN FlatMap_searchLoop(pairs, key, left, pivot - 1)
           ELSE [found |-> TRUE, index |-> pivot]
  ELSE [found |-> FALSE, index |-> left]

\* a search that leaves the front of the map as the place of an absent key
FlatMap_searchMissAtFront(m, key) ==
  LET s == FlatMap_searchLoop(m.elems, key, 0, Array_length(m) - 1)
  IN  IF s.found THEN s ELSE [s EXCEPT !.index = 0]

\* bool FlatMap::search(Length& index, Key const& key)
FlatMap_search(m, key) == FlatMap_searchLoop(m.elems, key, 0, Array_length(m) - 1)

\* an add that leaves the value of a key that is already stored
FlatMap_addKeepingValue(m, key, value, ok) ==
  LET s == FlatMap_searchLoop(m.elems, key, 0, Array_length(m) - 1)
  IN  IF s.found
      THEN [m EXCEPT !.index = s.index]
      ELSE LET r == Array_insert(m, s.index, [key |-> key, value |-> value], ok)
           IN  [r EXCEPT !.index = IF r.ret THEN s.index ELSE NotFound]

\* Location FlatMap::add(Key const& key, Value const& value)
FlatMap_add(m, key, value, ok) ==
  LET s == FlatMap_search(m, key)
  IN  IF s.found
      THEN [m EXCEPT !.elems[s.index + 1].value = value, !.index = s.index]
      ELSE LET r == Array_insert(m, s.index, [key |-> key, value |-> value], ok)
           IN  [r EXCEPT !.index = IF r.ret THEN s.index ELSE NotFound]

\* FlatMap& FlatMap::addp(Key const& key, Value const& value)
FlatMap_addp(m, key, value, ok) ==
  LET r == FlatMap_add(m, key, value, ok)
  IN  IF r.index = NotFound THEN Array_pollute(r) ELSE r

\* bool FlatMap::insert(Location const& location, Key const& key, Value const& value)
FlatMap_insert(m, location, key, value, ok) ==
  Array_insert(m, location, [key |-> key, value |-> value], ok)

\* bool FlatMap::erase(Key const& key)
FlatMap_erase(m, key) ==
  LET s == FlatMap_search(m, key)
  IN  IF s.found THEN Array_eraseAt(m, s.index) ELSE [m EXCEPT !.ret = FALSE]

\* bool FlatMap::erase(Location const& location)
FlatMap_eraseAt(m, location) ==
  IF location # NotFound THEN Array_eraseAt(m, location) ELSE [m EXCEPT !.ret = FALSE]

\* NULL, where a pointer to a value is returned
Null == 0

\* Value const* FlatMap::value(Key const& key): the value it points to, or NULL
FlatMap_value(m, key) ==
  LET s == FlatMap_search(m, key)
  IN  IF s.found THEN m.elems[s.index + 1].value ELSE Null

\* Value const& FlatMap::at(Location const& location)
FlatMap_at(m, location) == m.elems[location + 1].value

\* a find that leaves the place behind the one an absent key belongs at
FlatMap_findOnePast(m, key) ==
  LET s == FlatMap_searchLoop(m.elems, key, 0, Array_length(m) - 1)
  IN  IF s.found THEN s ELSE [s EXCEPT !.index = s.index + 1]

\* bool FlatMap::find(Location& location, Key const& key): what it returns and
\* the index of the location it leaves
FlatMap_find(m, key) == FlatMap_search(m, key)

\* the loop over the pairs in FlatMap::FlatMap(std::initializer_list<KeyValue>)
RECURSIVE FlatMap_addAll(_, _, _)
FlatMap_addAll(m, pairs, ok) ==
  IF pairs = <<>> THEN m
  ELSE LET r == FlatMap_add(m, Head(pairs).key, Head(pairs).value, ok)
       IN  IF r.index = NotFound THEN Array_pollute(r)
           ELSE FlatMap_addAll(r, Tail(pairs), ok)

\* FlatMap::FlatMap(std::initializer_list<KeyValue> pairs)
FlatMap_ofList(pairs, ok) ==
  LET c == Array_setCapacity(EmptyArray, Len(pairs), ok)
  IN  IF c.ret THEN FlatMap_addAll(c, pairs, ok) ELSE Array_pollute(c)

\* while (left <= right) { ... } of FlatSet::search
RECURSIVE FlatSet_searchLoop(_, _, _, _)
FlatSet_searchLoop(values, value, left, right) ==
  IF left <= right
  THEN LET pivot == (left + right) \div 2
           res == TextComparer(values[pivot + 1], value)
       IN  IF res < 0 THEN FlatSet_searchLoop(values, value, pivot + 1, right)
           ELSE IF res > 0 THEN FlatSet_searchLoop(values, value, left, pivot - 1)
           ELSE [found |-> TRUE, index |-> pivot]
  ELSE [found |-> FALSE, index |-> left]

\* bool FlatSet::search(Length& index, Value const& value)
FlatSet_search(t, value) == FlatSet_searchLoop(t.elems, value, 0, Array_length(t) - 1)

\* Location FlatSet::add(Value const& value)
FlatSet_add(t, value, ok) ==
  LET s == FlatSet_search(t, value)
  IN  IF s.found THEN [t EXCEPT !.index = s.index]
      ELSE LET r == Array_insert(t, s.index, value, ok)
           IN  [r EXCEPT !.index = IF r.ret THEN s.index ELSE NotFound]

\* FlatSet& FlatSet::addp(Value const& value)
FlatSet_addp(t, value, ok) ==
  LET r == FlatSet_add(t, value, ok)
  IN  IF r.index = NotFound THEN Array_pollute(r) ELSE r

\* bool FlatSet::update(Value const& value)
FlatSet_update(t, value, ok) ==
  LET s == FlatSet_search(t, value)
  IN  IF ~s.found THEN Array_insert(t, s.index, value, ok)
      ELSE [t EXCEPT !.elems[s.index + 1] = value, !.ret = TRUE]

\* bool FlatSet::erase(Value const& value)
FlatSet_erase(t, value) ==
  LET s == FlatSet_search(t, value)
  IN  IF s.found THEN Array_eraseAt(t, s.index) ELSE [t EXCEPT !.ret = FALSE]

\* bool FlatSet::erase(Location const& location)
FlatSet_eraseAt(t, location) == Array_eraseAt(t, location)

\* the loop over the values in FlatSet::FlatSet(std::initializer_list<Value>)
RECURSIVE FlatSet_addAll(_, _, _)
FlatSet_addAll(t, values, ok) ==
  IF values = <<>> THEN t
  ELSE LET r == FlatSet_add(t, Head(values), ok)
       IN  IF r.index = NotFound THEN Array_pollute(r)
           ELSE FlatSet_addAll(r, Tail(values), ok)

\* FlatSet::FlatSet(std::initializer_list<Value> values): the result of
\* capacity() is dropped
FlatSet_ofList(values, ok) ==
  FlatSet_addAll(Array_setCapacity(EmptyArray, Len(values), ok), values, ok)

\* ---------------------------------------------------------- MemoryStream
\* A MemoryStream is its block _buffer (as long as _capacity says), _position,
\* _size and the pollute bit of _status.  ret holds what a call returning
\* Size or Offset returned, ok what a call returning bool returned, oob that a
\* call read or wrote bytes outside the block.

\* Stream::Failure
Failure == -1

\* MemoryStream::MemoryStream(size_t capacity)
MemoryStream_ofCapacity(capacity, room) ==
  [buffer |-> IF capacity # 0 /\ room THEN Fill(capacity, Uninit) ELSE <<>>,
   position |-> 0, size |-> 0, pol |-> FALSE, ret |-> 0, ok |-> TRUE, oob |-> FALSE]

\* size_t MemoryStream::capacity() const
MemoryStream_capacity(m) == Len(m.buffer)

\* what a call starts from: nothing returned yet
MemBegin(m) == [m EXCEPT !.ret = 0, !.ok = TRUE]

\* bool MemoryStream::reallocate(size_t capacity)
MemoryStream_reallocate(m, capacity, room) ==
  IF room \/ capacity = 0
  THEN [m EXCEPT !.buffer = Resized(Take(m.buffer, capacity), capacity), !.ok = TRUE]
  ELSE [m EXCEPT !.ok = FALSE]

\* ::memcpy(_buffer + at, bytes, Len(bytes))
MemoryStream_put(m, at, bytes) ==
  IF at + Len(bytes) > MemoryStream_capacity(m)
  THEN [m EXCEPT !.oob = TRUE]
  ELSE [m EXCEPT !.buffer = [i \in 1..Len(m.buffer) |->
                               IF i > at /\ i <= at + Len(bytes)
                               THEN bytes[i - at] ELSE m.buffer[i]]]

\* the count bytes that ::memcpy(dest, _buffer + at, count) finds
MemoryStream_get(m, at, count) ==
  [i \in 1..count |-> IF at + i <= MemoryStream_capacity(m) THEN m.buffer[at + i] ELSE Uninit]

\* Offset BaseMemoryStream::seek(Offset offset, SeekOrigin origin)
BaseMemoryStream_seek(m, offset, origin) ==
  LET from == IF origin = "Current" THEN m.position
              ELSE IF origin = "End" THEN m.size ELSE 0
      position == IF offset >= 0 THEN from + offset
                  ELSE IF 0 - offset > from THEN 0 ELSE from + offset
  IN  [m EXCEPT !.position = position, !.ret = position]

\* Size BaseMemoryStream::readBytes(void* dest, DataType const* source, Size size):
\* the stream after it, and the bytes it left in dest
BaseMemoryStream_readBytes(m, size) ==
  IF size < 0 THEN [m |-> [m EXCEPT !.ret = Failure], bytes |-> <<>>]
  ELSE IF size = 0 THEN [m |-> [m EXCEPT !.ret = 0], bytes |-> <<>>]
  ELSE LET remainingBytes == IF m.position <= m.size THEN m.size - m.position ELSE 0
           bytesRead == min(size, remainingBytes)
       IN  [m |-> [m EXCEPT !.position = m.position + bytesRead,
                            !.ret = bytesRead,
                            !.oob = m.oob \/ m.position + bytesRead > MemoryStream_capacity(m)],
            bytes |-> MemoryStream_get(m, m.position, bytesRead)]

\* Size MemoryStream::read(void* buffer, Size size)
MemoryStream_read(m, size) == BaseMemoryStream_readBytes(m, size)

\* a write that leaves _size as it was
MemoryStream_writeKeepingSize(m, bytes, size, room) ==
  IF size < 0 THEN [m EXCEPT !.ret = Failure]
  ELSE IF size = 0 THEN [m EXCEPT !.ret = 0]
  ELSE LET tentativeSize == m.position + size
           r == IF tentativeSize <= MemoryStream_capacity(m) THEN m
                ELSE MemoryStream_reallocate(m,
                       computeNextCapacity(tentativeSize, MemoryStream_capacity(m), 0), room)
       IN  IF tentativeSize <= MemoryStream_capacity(m) \/ r.ok
           THEN [MemoryStream_put(r, m.position, Take(bytes, size)) EXCEPT
                   !.position = m.position + size,
                   !.ret = size, !.ok = TRUE]
           ELSE [r EXCEPT !.ret = Failure, !.ok = TRUE]

\* Size MemoryStream::write(void const* buffer, Size size), buffer holding bytes
MemoryStream_write(m, bytes, size, room) ==
  IF size < 0 THEN [m EXCEPT !.ret = Failure]
  ELSE IF size = 0 THEN [m EXCEPT !.ret = 0]
  ELSE LET tentativeSize == m.position + size
           r == IF tentativeSize <= MemoryStream_capacity(m) THEN m
                ELSE MemoryStream_reallocate(m,
                       computeNextCapacity(tentativeSize, MemoryStream_capacity(m), 0), room)
       IN  IF tentativeSize <= MemoryStream_capacity(m) \/ r.ok
           THEN [MemoryStream_put(r, m.position, Take(bytes, size)) EXCEPT
                   !.position = m.position + size,
                   !.size = max(m.size, m.position + size),
                   !.ret = size, !.ok = TRUE]
           ELSE [r EXCEPT !.ret = Failure, !.ok = TRUE]

\* bool MemoryStream::truncate()
MemoryStream_truncate(m, room) ==
  IF m.position < m.size THEN [m EXCEPT !.size = m.position, !.ok = TRUE]
  ELSE IF m.position > m.size
  THEN LET r == IF m.position <= MemoryStream_capacity(m) THEN m
                ELSE MemoryStream_reallocate(m,
                       computeNextCapacity(m.position, MemoryStream_capacity(m), 0), room)
       IN  IF m.position <= MemoryStream_capacity(m) \/ r.ok
           THEN [r EXCEPT !.size = m.position, !.ok = TRUE]
           ELSE [r EXCEPT !.ok = FALSE]
  ELSE [m EXCEPT !.ok = TRUE]

\* bool MemoryStream::capacity(size_t capacity)
MemoryStream_setCapacity(m, capacity, room) ==
  IF MemoryStream_capacity(m) < capacity
  THEN MemoryStream_reallocate(m, computeNextCapacity(capacity, MemoryStream_capacity(m), 0), room)
  ELSE [m EXCEPT !.ok = TRUE]

\* void MemoryStream::clear()
MemoryStream_clear(m) == [m EXCEPT !.size = 0, !.pol = FALSE]

\* bool MemoryStream::shrinkToFit()
MemoryStream_shrinkToFit(m, room) ==
  IF m.size # 0
  THEN IF m.size < MemoryStream_capacity(m)
       THEN MemoryStream_reallocate(m, m.size, room)
       ELSE [m EXCEPT !.ok = TRUE]
  ELSE [MemoryStream_clear(m) EXCEPT !.ok = TRUE]

\* void Stream::pollute()
Stream_pollute(m) == [m EXCEPT !.pol = TRUE]

\* MemoryStream::MemoryStream(MemoryStream const& stream)
MemoryStream_copyOf(stream, room) ==
  LET m == MemoryStream_ofCapacity(MemoryStream_capacity(stream), room)
  IN  IF m.buffer # <<>> \/ MemoryStream_capacity(stream) = 0
      THEN [(IF stream.size # 0
             THEN MemoryStream_put(m, 0, MemoryStream_get(stream, 0, stream.size))
             ELSE m) EXCEPT
              !.position = stream.position, !.size = stream.size,
              !.oob = @ \/ stream.size > MemoryStream_capacity(stream)]
      ELSE m

\* MemoryStream::MemoryStream(MemoryStream&& stream): the new object and what
\* is left of stream.  The base is constructed from the lvalue stream, by
\* BaseMemoryStream(BaseMemoryStream const&), which leaves stream's _position
\* and _size.
MemoryStream_moveOf(stream) ==
  [made |-> [MemBegin(stream) EXCEPT !.pol = FALSE, !.oob = FALSE],
   left |-> [stream EXCEPT !.buffer = <<>>]]

\* MemoryStream& MemoryStream::operator = (MemoryStream const& stream)
MemoryStream_assign(m, stream, room) ==
  LET r == IF MemoryStream_capacity(m) = MemoryStream_capacity(stream) THEN m
           ELSE MemoryStream_reallocate(m, MemoryStream_capacity(stream), room)
  IN  IF MemoryStream_capacity(m) = MemoryStream_capacity(stream) \/ r.ok
      THEN [(IF stream.size # 0
             THEN MemoryStream_put(r, 0, MemoryStream_get(stream, 0, stream.size))
             ELSE r) EXCEPT
              !.position = stream.position, !.size = stream.size, !.ok = TRUE,
              !.oob = @ \/ stream.size > MemoryStream_capacity(stream)]
      ELSE [r EXCEPT !.ok = TRUE]

\* MemoryStream& MemoryStream::operator = (MemoryStream&& stream): the object
\* assigned to and what is left of stream
MemoryStream_moveAssign(m, stream) ==
  [made |-> [m EXCEPT !.buffer = stream.buffer, !.position = stream.position,
                      !.size = stream.size],
   left |-> [stream EXCEPT !.buffer = <<>>, !.position = 0, !.size = 0]]

\* the for loop of MemoryStream::copy, source being a MemoryStream; room is the
\* number of blocks the allocator still gives
RECURSIVE MemoryStream_copyLoop(_, _, _, _, _)
MemoryStream_copyLoop(m, source, blockSize, totalBytesRead, room) ==
  LET tentativeSize == m.position + blockSize
      grown == tentativeSize > MemoryStream_capacity(m)
      r == IF grown
           THEN MemoryStream_reallocate(m,
                  computeNextCapacity(tentativeSize, MemoryStream_capacity(m), 0), room > 0)
           ELSE m
      got == MemoryStream_read(source, blockSize)
      bytesRead == got.m.ret
      t == [MemoryStream_put(r, m.position, got.bytes) EXCEPT
              !.position = m.position + bytesRead,
              !.size = max(m.size, m.position + bytesRead),
              !.oob = @ \/ got.m.oob]
  IN  IF grown /\ ~r.ok
      THEN [m |-> [Stream_pollute(r) EXCEPT !.ret = totalBytesRead], source |-> source]
      ELSE IF bytesRead < 0
      THEN [m |-> [Stream_pollute(r) EXCEPT !.ret = totalBytesRead], source |-> got.m]
      ELSE IF bytesRead > 0
      THEN MemoryStream_copyLoop(t, got.m, blockSize, totalBytesRead + bytesRead,
                                 IF grown THEN room - 1 ELSE room)
      ELSE [m |-> [t EXCEPT !.ret = totalBytesRead], source |-> got.m]

\* the block size Stream::copy and MemoryStream::copy go on with when the
\* source has a position and a size
ClampBlockSize(sourceSize, position, size, blockSize) ==
  max(min(min(sourceSize - position, blockSize), IF size > 0 THEN size ELSE blockSize), 0)

\* Offset MemoryStream::copy(Stream& source, Offset size, Size blockSize), source
\* being a MemoryStream: the stream and the source after it
MemoryStream_copy(m, source, size, blockSize0, room) ==
  LET position == source.position
      sourceSize == source.size
      clamped == position >= 0 /\ sourceSize > 0
      blockSize == IF clamped THEN ClampBlockSize(sourceSize, position, size, blockSize0)
                   ELSE blockSize0
      prealloc == clamped /\ m.position = 0 /\ MemoryStream_capacity(m) = 0 /\ blockSize > 0
      r == IF prealloc THEN MemoryStream_reallocate(m, blockSize, room > 0) ELSE m
  IN  IF clamped /\ position >= sourceSize
      THEN [m |-> [m EXCEPT !.ret = 0], source |-> source]
      ELSE IF prealloc /\ ~r.ok
      THEN [m |-> [r EXCEPT !.ret = Failure], source |-> source]
      ELSE IF size >= 0 /\ blockSize > 0
      THEN MemoryStream_copyLoop(r, source, blockSize, 0, IF prealloc THEN room - 1 ELSE room)
      ELSE [m |-> [r EXCEPT !.ret = Failure], source |-> source]

\* ------------------------------------------------------------ Stream::copy

\* a write after which the rest of the block is discarded
DropRemainder(buffer, bytesWritten) == <<>>

\* what is left in the block after bytesWritten of its bytes were written:
\* ::memmove(buffer, buffer + bytesWritten, bytesRemaining); storedBytes -= bytesWritten
KeepRemainder(buffer, bytesWritten) == SubSeq(buffer, bytesWritten + 1, Len(buffer))

\* what Size FileStream::read(void* buffer, Size size) may return on a file that
\* has remaining bytes left: a failure, all that was asked for and is there, or
\* less of it
FileStream_read(size, remaining) ==
  IF size < 0 THEN {Failure}
  ELSE IF size = 0 THEN {0}
  ELSE {Failure, min(size, remaining)} \cup (IF min(size, remaining) > 1 THEN {1} ELSE {})

\* what Size FileStream::write(void const* buffer, Size size) may return
FileStream_write(size) ==
  IF size < 0 THEN {Failure}
  ELSE IF size = 0 THEN {0}
  ELSE {Failure, 0, size} \cup (IF size > 1 THEN {1} ELSE {})

\* ------------------------------------------------------------ the state

VARIABLES
  str,      \* the String object and the memory it reaches
  wrapSrc,  \* the caller's buffer as it was when String::Wrap adopted it
  last,     \* the last String call: its name, whether a String operand (the
            \* receiver included) was polluted before it, whether the exact
            \* result would be longer than MaxLength
  trip,     \* history of a grow / erase-back sequence: the content it started from
  calls,    \* the number of calls made on the String so far
  se,       \* a searchEraseAll call on the String: where its loop stands, the
            \* match and the position the search goes on from
  arr,      \* the Array object
  alast,    \* the last Array call: its name, whether it could complete, its
            \* first two arguments
  atrip,    \* history of an insert(i, v) and the erase(i) after it: the index and
            \* the elements the array held before the insert (stages 1 and 2);
            \* after quickSort, the elements the array held before it (stage 3)
  flat,     \* a FlatMap or a FlatSet: its kind and its Array _pairs / _values
  loc,      \* the caller's Location object: its index
  flast,    \* the last FlatMap / FlatSet call: its name, its key and value, what
            \* search found, whether it could not get room for one more entry
  ms,       \* a MemoryStream object
  other,    \* a second MemoryStream object: the one copied, moved or read from
  mlast,    \* the last MemoryStream call: its name, its arguments, what it returned
  cp,       \* a Stream::copy call between two streams: its locals, the source,
            \* the destination, and the bytes read and accepted so far
  grow      \* a buffer that grows: the capacity asked for, the one it has, its
            \* initial one and what math::computeNextCapacity returned

strVars == <<str, wrapSrc, last, trip, calls, se>>

arrVars == <<arr, alast, atrip>>

flatVars == <<flat, loc, flast>>

memVars == <<ms, other, mlast>>

streamVars == <<ms, other, mlast, cp, grow>>

vars ==
  <<str, wrapSrc, last, trip, calls, se, arr, alast, atrip, flat, loc, flast,
    ms, other, mlast, cp, grow>>

\* the longest sequence of String calls that is followed
MaxCalls == 2

\* the inputs the calls are tried with
Pattern(n, first) == [i \in 1..n |-> IF i % 2 = 1 THEN first ELSE 3 - first]

CStrings == {Pattern(n, 1) : n \in 0..StrMaxLength}

OperandChars == {Pattern(n, 2) : n \in {0, 1, ShortLength}}

\* String operands: an empty one, a polluted one, one too long to be short
Operands == {[chars |-> c, pol |-> (Len(c) = 1)] : c \in OperandChars}

LengthArgs == (0 - 1)..(StrMaxLength + 1)

PositionArgs == {0 - 2, 0, 1}

CountArgs == {NotFound, 1}

ArrLengthArgs == (0 - 1)..ArrMaxLength

ArrIndexArgs == (0 - 1)..ArrMaxLength

NoTrip == [stage |-> 0, orig |-> <<>>]

\* no searchEraseAll call yet
NoSearch == [pc |-> "idle", match |-> <<>>, matchPol |-> FALSE, position |-> 0]

NoATrip == [stage |-> 0, index |-> NotFound, orig |-> <<>>]

NoFlatCall ==
  [op |-> "none", key |-> 0, value |-> 0, found |-> FALSE, stuck |-> FALSE]

Begin(s) == [s EXCEPT !.failed = FALSE, !.ret = TRUE]

ArrBegin(a) == [a EXCEPT !.failed = FALSE, !.ret = TRUE, !.index = NotFound]

Owned(s) == longBit(s) /\ ~wrappedBit(s)

\* the grow / erase-back history after the call op took the object from s to t
TripAfter(op, s, t) ==
  IF op \in {"append", "appendChar"} /\ ~wrapped(s) /\ String_length(s) <= ShortCapacity
       /\ Owned(t) /\ String_length(t) > ShortCapacity /\ ~t.oob /\ ~t.pol
  THEN [stage |-> 1, orig |-> String_chars(s)]
  ELSE IF op = "erase" /\ trip.stage = 1 /\ Owned(t) /\ String_chars(t) = trip.orig /\ ~t.oob
  THEN [trip EXCEPT !.stage = 2]
  ELSE NoTrip

\* a String as a constructor, String::Wrap, String::Invalid or an operator + returns
\* it, with the name of what made it and its history
Made(s, op, srcPol, overflow) ==
  [s |-> s, last |-> [op |-> op, srcPol |-> srcPol, overflow |-> overflow]]

Constructed ==
  {Made(String_fromCString(c, ok), "String", FALSE, FALSE) : c \in CStrings, ok \in BOOLEAN}
  \cup {Made(String_Invalid, "Invalid", FALSE, FALSE)}
  \cup UNION {{Made(String_Wrap(c, l, aligned, ok), "Wrap", FALSE, FALSE) :
                 l \in {0 - 1, 0, Len(c)}, aligned \in BOOLEAN, ok \in BOOLEAN} : c \in CStrings}
  \cup {Made(String_plus(pq[1], pq[2], ok), "plus", pq[1].pol \/ pq[2].pol,
              Len(pq[1].chars) + Len(pq[2].chars) > StrMaxLength) :
           pq \in Operands \X Operands, ok \in BOOLEAN}
  \cup {Made(String_plusSC(p, 1, ok), "plus", p.pol, Len(p.chars) + 1 > StrMaxLength) :
           p \in Operands, ok \in BOOLEAN}
  \cup {Made(String_plusCS(1, p, ok), "plus", p.pol, Len(p.chars) + 1 > StrMaxLength) :
           p \in Operands, ok \in BOOLEAN}
  \cup {Made(String_plusSP(p, <<1>>, ok), "plus", p.pol, Len(p.chars) + 1 > StrMaxLength) :
           p \in Operands, ok \in BOOLEAN}
  \cup {Made(String_plusPS(<<1>>, p, ok), "plus", p.pol, Len(p.chars) + 1 > StrMaxLength) :
           p \in Operands, ok \in BOOLEAN}

\* the String as one of the ways to make one leaves it
StrInit ==
  /\ \E m \in Constructed :
       /\ str = m.s
       /\ wrapSrc = m.s.ext
       /\ last = m.last
  /\ trip = NoTrip
  /\ calls = 0
  /\ se = NoSearch

\* String(), while the Array is worked on
StrIdle ==
  /\ str = EmptyString
  /\ wrapSrc = <<>>
  /\ last = [op |-> "String", srcPol |-> FALSE, overflow |-> FALSE]
  /\ trip = NoTrip
  /\ calls = 0
  /\ se = NoSearch

\* Array()
ArrInit ==
  /\ arr = EmptyArray
  /\ alast = [op |-> "Array", stuck |-> FALSE, first |-> 0, second |-> 0]
  /\ atrip = NoATrip

\* FlatMap(), while the others are worked on
FlatIdle ==
  /\ flat = [kind |-> "map", store |-> EmptyArray]
  /\ loc = NotFound
  /\ flast = [NoFlatCall EXCEPT !.op = "map"]

\* no MemoryStream call yet: the call's name and arguments, the number of calls
\* made; where a write, seek back and read sequence stands (stage), the
\* position and the bytes of its write, the bytes its read returned; the size
\* the last construction, assignment, copy, clear or truncate left (base) and
\* the largest end position written since (high)
NoMemCall ==
  [op |-> "MemoryStream", size |-> 0, blockSize |-> 0, calls |-> 0,
   stage |-> 0, p |-> 0, bytes |-> <<>>, data |-> <<>>, base |-> 0, high |-> 0]

\* no Stream::copy call.  pc is where the call stands: before it ("idle"), at the
\* read or at the write of its loop, or returned ("done"); size and blockSize
\* its arguments, buffer the storedBytes bytes of its block, totalBytesRead and
\* available its locals, ret what it returned, error whether a read, a write or
\* malloc failed.  The source is a file of bytes data read from position start
\* on and now at position; sized is whether it can tell its position and size,
\* sourcePol its pollute bit.  accepted are the bytes the destination's write
\* took, pol is the destination's pollute bit.
NoCopy ==
  [pc |-> "idle", size |-> 0, blockSize |-> 0, buffer |-> <<>>, totalBytesRead |-> 0,
   available |-> TRUE, ret |-> 0, error |-> FALSE,
   data |-> <<>>, start |-> 0, position |-> 0, sized |-> TRUE, sourcePol |-> FALSE,
   accepted |-> <<>>, pol |-> FALSE]

\* no capacity computed
NoGrow == [requested |-> 0, current |-> 0, initial |-> 0, result |-> 0, computed |-> FALSE]

\* MemoryStream(), while the others are worked on
MemIdle ==
  /\ ms = MemoryStream_ofCapacity(0, TRUE)
  /\ other = MemoryStream_ofCapacity(0, TRUE)
  /\ mlast = NoMemCall

\* no stream at work
StreamIdle == MemIdle /\ cp = NoCopy /\ grow = NoGrow

\* the arrays assigned from
AssignSources == {EmptyArray, Array_ofList(<<2, 1>>, TRUE)}

\* what a constructor returns, and the record of the call
ArrMade(a, op, first, second) ==
  [a |-> a, last |-> [op |-> op, stuck |-> FALSE, first |-> first, second |-> second]]

\* Array(), Array(capacity), Array(length, value), Array({...})
ArrConstructed ==
  {ArrMade(EmptyArray, "Array", 0, 0)}
  \cup {ArrMade(Array_ofCapacity(n, ok), "ArrayCapacity", n, 0) :
           n \in {0 - 1, 2}, ok \in BOOLEAN}
  \cup {ArrMade(Array_ofLength(n, v, ok), "ArrayLength", n, v) :
           n \in {0, 2}, v \in Elements, ok \in BOOLEAN}
  \cup {ArrMade(Array_ofList(l, ok), "ArrayList", Len(l), 0) :
           l \in {<<>>, <<2, 1, 2>>}, ok \in BOOLEAN}

\* a call on the String, whatever the number of calls before it
StrStep(new, op, srcPol, overflow) ==
  /\ str' = new
  /\ wrapSrc' = wrapSrc
  /\ last' = [op |-> op, srcPol |-> (srcPol \/ str.pol), overflow |-> overflow]
  /\ trip' = TripAfter(op, str, new)
  /\ se' = se
  /\ UNCHANGED arrVars
  /\ UNCHANGED flatVars
  /\ UNCHANGED streamVars

\* a call on the String that counts
StrCall(new, op, srcPol, overflow) ==
  /\ StrStep(new, op, srcPol, overflow)
  /\ calls' = calls + 1

\* where an insert(i, v) / erase(i) sequence stands after the call op with
\* first argument index has taken the array from a to new
ATripAfter(op, index, a, new) ==
  IF op = "insert" /\ new.ret
  THEN [stage |-> 1, index |-> index, orig |-> a.elems]
  ELSE IF op = "eraseAt" /\ atrip.stage = 1 /\ index = atrip.index
  THEN [atrip EXCEPT !.stage = 2]
  ELSE IF op = "quickSort"
  THEN [stage |-> 3, index |-> NotFound, orig |-> a.elems]
  ELSE NoATrip

\* a call on the Array; stuck is whether the array is full or the call needs a
\* block that the allocator does not give
ArrStep(new, op, stuck, first, second) ==
  /\ ~arr.oob
  /\ arr' = new
  /\ alast' = [op |-> op, stuck |-> stuck, first |-> first, second |-> second]
  /\ atrip' = ATripAfter(op, first, arr, new)
  /\ UNCHANGED strVars
  /\ UNCHANGED flatVars
  /\ UNCHANGED streamVars

\* a call on the Array whose arguments no property asks for
ArrCall(new, op, stuck) == ArrStep(new, op, stuck, 0, 0)

Running == ~str.oob /\ calls < MaxCalls

\* full, or in need of a block for one more element that alloc does not give
Stuck(a, ok) ==
  \/ Array_length(a) >= ArrMaxLength
  \/ Array_length(a) + 1 > Array_capacity(a) /\ ~ok

DoSetLength ==
  /\ Running
  /\ \E n \in LengthArgs, ok \in BOOLEAN :
       StrCall(String_setLength(Begin(str), n, ok), "length", FALSE, FALSE)

DoSetCapacity ==
  /\ Running
  /\ \E n \in LengthArgs, ok \in BOOLEAN :
       StrCall(String_setCapacity(Begin(str), n, ok), "capacity", FALSE, FALSE)

DoClear ==
  /\ Running
  /\ StrCall(String_clear(Begin(str)), "clear", FALSE, FALSE)

DoBurn ==
  /\ Running
  /\ StrCall(String_burn(Begin(str)), "burn", FALSE, FALSE)

DoShrink ==
  /\ Running
  /\ \E ok \in BOOLEAN :
       StrCall(String_shrink(Begin(str), ok), "shrink", FALSE, FALSE)

DoUnwrap ==
  /\ Running
  /\ \E ok \in BOOLEAN :
       StrCall(String_unwrap(Begin(str), ok), "unwrap", FALSE, FALSE)

DoPollute ==
  /\ Running
  /\ StrCall(String_pollute(Begin(str)), "pollute", FALSE, FALSE)

DoUnpollute ==
  /\ Running
  /\ StrCall(String_unpollute(Begin(str)), "unpollute", FALSE, FALSE)

DoAssign ==
  /\ Running
  /\ \E src \in Operands, ok \in BOOLEAN :
       StrCall(String_assign(Begin(str), src, ok), "assign", src.pol, FALSE)

DoAppend ==
  /\ Running
  /\ \E src \in Operands, ok \in BOOLEAN :
       StrCall(String_append(Begin(str), src, ok), "append", src.pol,
               String_length(str) + Len(src.chars) > StrMaxLength)

DoAppendChar ==
  /\ Running
  /\ \E c \in {1}, ok \in BOOLEAN :
       StrCall(String_appendChar(Begin(str), c, ok), "appendChar", FALSE,
               String_length(str) + 1 > StrMaxLength)

DoPrepend ==
  /\ Running
  /\ \E src \in Operands, ok \in BOOLEAN :
       StrCall(String_prepend(Begin(str), src, ok), "prepend", src.pol,
               String_length(str) + Len(src.chars) > StrMaxLength)

DoPrependChar ==
  /\ Running
  /\ \E c \in {1}, ok \in BOOLEAN :
       StrCall(String_prependChar(Begin(str), c, ok), "prependChar", FALSE,
               String_length(str) + 1 > StrMaxLength)

DoConcatenate ==
  /\ Running
  /\ \E p \in Operands, q \in Operands, ok \in BOOLEAN :
       StrCall(String_concatenate(Begin(str), p, q, ok), "concatenate", p.pol \/ q.pol,
               Len(p.chars) + Len(q.chars) > StrMaxLength)

DoConcatenateChar ==
  /\ Running
  /\ \E p \in Operands, c \in {1}, ok \in BOOLEAN :
       \/ StrCall(String_concatenateSC(Begin(str), p, c, ok), "concatenate", p.pol,
                  Len(p.chars) + 1 > StrMaxLength)
       \/ StrCall(String_concatenateCS(Begin(str), c, p, ok), "concatenate", p.pol,
                  Len(p.chars) + 1 > StrMaxLength)

DoCopy ==
  /\ Running
  /\ \E src \in Operands, sp \in {0, 1}, sl \in {NotFound, 1}, ok \in BOOLEAN :
       StrCall(String_copy(Begin(str), src, sp, sl, ok), "copy", src.pol, FALSE)

\* the indices of [0, total) that lie in [position, position + length), where a
\* length of NotFound stands for total
Region(position, length, total) ==
  LET n == IF length = NotFound THEN total ELSE length
  IN  {i \in 0..(total - 1) : i >= position /\ i < position + n}

DoReplace ==
  /\ Running
  /\ \E src \in Operands, p \in PositionArgs, l \in CountArgs, ok \in BOOLEAN,
        ok2 \in BOOLEAN :
       StrCall(String_replace(Begin(str), src, p, l, 0, NotFound, ok, ok2), "replace", src.pol,
               String_length(str) - Cardinality(Region(p, l, String_length(str)))
                 + Len(src.chars) > StrMaxLength)

DoInsert ==
  /\ Running
  /\ \E src \in Operands, p \in PositionArgs, ok \in BOOLEAN :
       StrCall(String_insert(Begin(str), src, p, ok), "insert", src.pol,
               String_length(str) + Len(src.chars) > StrMaxLength)

DoInsertChar ==
  /\ Running
  /\ \E c \in {1}, p \in PositionArgs, ok \in BOOLEAN :
       StrCall(String_insertChar(Begin(str), c, p, ok), "insertChar", FALSE,
               String_length(str) + 1 > StrMaxLength)

DoErase ==
  /\ Running
  /\ \E p \in PositionArgs, l \in CountArgs, ok \in BOOLEAN :
       StrCall(String_erase(Begin(str), p, l, ok), "erase", FALSE, FALSE)

StrNext ==
  \/ DoSetLength \/ DoSetCapacity \/ DoClear \/ DoBurn \/ DoShrink \/ DoUnwrap
  \/ DoPollute \/ DoUnpollute \/ DoAssign
  \/ DoAppend \/ DoAppendChar \/ DoPrepend \/ DoPrependChar
  \/ DoConcatenate \/ DoConcatenateChar \/ DoCopy
  \/ DoReplace \/ DoInsert \/ DoInsertChar \/ DoErase

InitString == StrInit /\ ArrInit /\ FlatIdle /\ StreamIdle

SpecString == InitString /\ [][StrNext]_vars

\* ---------------------------------------- String: growing and shrinking back
\* the calls of a grow / erase-back / shrink sequence, followed to any length

GrowAppend ==
  /\ ~str.oob
  /\ calls' = calls
  /\ \E src \in Operands, ok \in BOOLEAN :
       StrStep(String_append(Begin(str), src, ok), "append", src.pol,
               String_length(str) + Len(src.chars) > StrMaxLength)

GrowAppendChar ==
  /\ ~str.oob
  /\ calls' = calls
  /\ \E c \in Chars, ok \in BOOLEAN :
       StrStep(String_appendChar(Begin(str), c, ok), "appendChar", FALSE,
               String_length(str) + 1 > StrMaxLength)

EraseBack ==
  /\ ~str.oob
  /\ calls' = calls
  /\ \E p \in 0..ShortLength, ok \in BOOLEAN :
       StrStep(String_erase(Begin(str), p, NotFound, ok), "erase", FALSE, FALSE)

ShrinkBack ==
  /\ ~str.oob
  /\ calls' = calls
  /\ \E ok \in BOOLEAN :
       StrStep(String_shrink(Begin(str), ok), "shrink", FALSE, FALSE)

RoundTripNext == GrowAppend \/ GrowAppendChar \/ EraseBack \/ ShrinkBack

SpecRoundTrip == InitString /\ [][RoundTripNext]_vars

\* ------------------------------------------ String: who owns the heap block
\* the calls that allocate, keep or give up the String's block, then ~String

\* the objects a String is move-assigned from
MoveSources == {m.s : m \in Constructed}

DoMoveAssign ==
  /\ Running
  /\ \E source \in MoveSources :
       /\ str' = String_moveAssign(Begin(str), source)
       /\ wrapSrc' = source.ext
       /\ last' = [op |-> "moveAssign", srcPol |-> (source.pol \/ str.pol), overflow |-> FALSE]
  /\ trip' = NoTrip
  /\ calls' = calls + 1
  /\ se' = se
  /\ UNCHANGED arrVars
  /\ UNCHANGED flatVars
  /\ UNCHANGED streamVars

\* the object goes out of scope after any number of calls; nothing is called on it after
DoDestroy ==
  /\ ~str.oob
  /\ calls <= MaxCalls
  /\ str' = String_destroy(str)
  /\ wrapSrc' = wrapSrc
  /\ last' = [op |-> "~String", srcPol |-> str.pol, overflow |-> FALSE]
  /\ trip' = NoTrip
  /\ calls' = MaxCalls + 1
  /\ se' = se
  /\ UNCHANGED arrVars
  /\ UNCHANGED flatVars
  /\ UNCHANGED streamVars

OwnNext ==
  \/ DoSetLength \/ DoSetCapacity \/ DoClear \/ DoBurn \/ DoShrink \/ DoUnwrap
  \/ DoAssign \/ DoAppend \/ DoAppendChar \/ DoErase
  \/ DoMoveAssign \/ DoDestroy

SpecOwn == InitString /\ [][OwnNext]_vars

\* --------------------------------------------------- searchEraseAll: the loop
\* String& searchEraseAll(String& string, String const& match), one step per
\* evaluation of the loop condition and per run of the loop body

SearchMatches ==
  {[chars |-> <<>>, pol |-> TRUE], [chars |-> <<>>, pol |-> FALSE],
   [chars |-> <<2>>, pol |-> FALSE], [chars |-> <<1, 2>>, pol |-> FALSE],
   [chars |-> <<2, 2>>, pol |-> FALSE]}

SearchStep(new, newSe) ==
  /\ str' = new
  /\ se' = newSe
  /\ wrapSrc' = wrapSrc
  /\ last' = [op |-> "searchEraseAll", srcPol |-> (se.matchPol \/ last.srcPol), overflow |-> FALSE]
  /\ trip' = NoTrip
  /\ calls' = calls
  /\ UNCHANGED arrVars
  /\ UNCHANGED flatVars
  /\ UNCHANGED streamVars

\* if (String::Length const matchLength = match.length()) ... position = 0
SearchCall ==
  /\ se.pc = "idle"
  /\ ~str.oob
  /\ \E match \in SearchMatches :
       SearchStep(str, [pc |-> IF Len(match.chars) # 0 THEN "find" ELSE "after",
                        match |-> match.chars, matchPol |-> match.pol, position |-> 0])

\* (position = findStr(string, match, position)) != String::NotFound
SearchFind ==
  /\ se.pc = "find"
  /\ LET position == findStr(str, se.match, se.position, 0)
     IN  SearchStep(str, [se EXCEPT !.pc = IF position # NotFound THEN "erase" ELSE "after",
                                    !.position = position])

\* string.erase(position, matchLength)
SearchErase ==
  /\ se.pc = "erase"
  /\ \E ok \in BOOLEAN :
       SearchStep(String_erase(Begin(str), se.position, Len(se.match), ok),
                  [se EXCEPT !.pc = "find"])

\* if (!match) string.pollute(); return string
SearchReturn ==
  /\ se.pc = "after"
  /\ SearchStep(IF se.matchPol THEN String_pollute(str) ELSE str, [se EXCEPT !.pc = "done"])

SearchNext == SearchCall \/ SearchFind \/ SearchErase \/ SearchReturn

SpecSearch == InitString /\ [][SearchNext]_vars

\* the thread that called searchEraseAll keeps running: a step that can be taken is taken
LiveSearch == SpecSearch /\ WF_vars(SearchNext)

\* ------------------------------------------------------- Array: the calls

ArrSetCapacity ==
  \E n \in ArrLengthArgs, ok \in BOOLEAN :
    ArrCall(Array_setCapacity(ArrBegin(arr), n, ok), "capacity", FALSE)

ArrSetLength ==
  \E n \in ArrLengthArgs, v \in Elements, ok \in BOOLEAN :
    ArrCall(Array_setLength(ArrBegin(arr), n, v, ok), "length", FALSE)

ArrClear == ArrCall(Array_clear(ArrBegin(arr)), "clear", FALSE)

ArrShrink ==
  \E ok \in BOOLEAN : ArrCall(Array_shrink(ArrBegin(arr), ok), "shrink", FALSE)

ArrPurge == ArrCall(Array_purge(ArrBegin(arr)), "purge", FALSE)

ArrPopulate ==
  \E n \in ArrLengthArgs, v \in Elements, ok \in BOOLEAN :
    ArrStep(Array_populate(ArrBegin(arr), n, v, ok), "populate", FALSE, n, v)

ArrAdd ==
  \E e \in Elements, ok \in BOOLEAN :
    ArrCall(Array_add(ArrBegin(arr), e, ok), "add", Stuck(arr, ok))

ArrInsert ==
  \E i \in ArrIndexArgs, e \in Elements, ok \in BOOLEAN :
    ArrStep(Array_insert(ArrBegin(arr), i, e, ok), "insert", Stuck(arr, ok), i, e)

ArrAddp ==
  \E e \in Elements, ok \in BOOLEAN :
    ArrCall(Array_addp(ArrBegin(arr), e, ok), "addp", Stuck(arr, ok))

ArrInsertp ==
  \E i \in ArrIndexArgs, e \in Elements, ok \in BOOLEAN :
    ArrCall(Array_insertp(ArrBegin(arr), i, e, ok), "insertp", Stuck(arr, ok))

ArrEraseAt ==
  \E i \in ArrIndexArgs :
    ArrStep(Array_eraseAt(ArrBegin(arr), i), "eraseAt", FALSE, i, 0)

ArrErase ==
  \E i \in ArrIndexArgs, n \in ArrLengthArgs :
    ArrStep(Array_erase(ArrBegin(arr), i, n), "erase", FALSE, i, n)

ArrPollute == ArrCall(Array_pollute(ArrBegin(arr)), "pollute", FALSE)

ArrUnpollute == ArrCall(Array_unpollute(ArrBegin(arr)), "unpollute", FALSE)

ArrAssign ==
  \E source \in AssignSources, ok \in BOOLEAN :
    ArrCall(Array_assign(ArrBegin(arr), source, ok), "assign", FALSE)

ArrNext ==
  \/ ArrSetCapacity \/ ArrSetLength \/ ArrClear \/ ArrShrink \/ ArrPurge \/ ArrPopulate
  \/ ArrAdd \/ ArrInsert \/ ArrAddp \/ ArrInsertp \/ ArrEraseAt \/ ArrErase
  \/ ArrPollute \/ ArrUnpollute \/ ArrAssign

\* the Array as one of its constructors leaves it
ArrInitAny ==
  /\ \E m \in ArrConstructed :
       /\ arr = m.a
       /\ alast = m.last
  /\ atrip = NoATrip

InitArray == StrIdle /\ ArrInitAny /\ FlatIdle /\ StreamIdle

SpecArray == InitArray /\ [][ArrNext]_vars

\* ---------------------------------------------- Array: sort and search

\* the elements that are sorted and searched for
SortElements == {1, 2, 3}

SortFirstArgs == {0 - 1, 0, 1, 2}

SortLastArgs == {1, 3, ArrMaxLength}

SearchArgs == 0..4

SortAdd ==
  \E e \in SortElements :
    ArrStep(Array_add(ArrBegin(arr), e, TRUE), "add", Stuck(arr, TRUE), e, 0)

ArrQuickSort ==
  \E f \in SortFirstArgs, l \in SortLastArgs :
    ArrStep(Array_quickSort(ArrBegin(arr), f, l), "quickSort", FALSE, f, l)

\* binarySearch(element), with first = 0 and last = MaxLength by default
ArrBinarySearch ==
  \E element \in SearchArgs :
    ArrStep(Array_binarySearch(ArrBegin(arr), element, 0, ArrMaxLength),
            "binarySearch", FALSE, element, 0)

SortNext == SortAdd \/ ArrQuickSort \/ ArrBinarySearch \/ ArrClear

InitSort == StrIdle /\ ArrInit /\ FlatIdle /\ StreamIdle

SpecSort == InitSort /\ [][SortNext]_vars

\* ------------------------------------------------ FlatMap and FlatSet

\* keys and set values: 0 and 1 are two spellings of one text
Keys == {0, 1, 2, 4}

Values == {1, 2}

\* keys in ascending order, no two of them comparing equal
KeysAscending(keys) ==
  \A i \in 1..(Len(keys) - 1) : TextComparer(keys[i], keys[i + 1]) < 0

\* the keys of a FlatMap's pairs, the values of a FlatSet, in storage order
FlatKeys(f) ==
  [i \in 1..Len(f.store.elems) |->
     IF f.kind = "map" THEN f.store.elems[i].key ELSE f.store.elems[i]]

\* FlatMap(), FlatMap({...}), FlatSet(), FlatSet({...})
FlatConstructed ==
  {[kind |-> "map", store |-> EmptyArray], [kind |-> "set", store |-> EmptyArray]}
  \cup {[kind |-> "map",
          store |-> FlatMap_ofList(<<[key |-> 4, value |-> 1], [key |-> 1, value |-> 1],
                                     [key |-> 0, value |-> 2]>>, ok)] : ok \in BOOLEAN}
  \cup {[kind |-> "set", store |-> FlatSet_ofList(<<4, 1, 0>>, ok)] : ok \in BOOLEAN}

FlatInit ==
  /\ flat \in FlatConstructed
  /\ loc = NotFound
  /\ flast = [NoFlatCall EXCEPT !.op = flat.kind]

\* a call on the container that leaves the store new and the caller's Location at
\* index newLoc
FlatStep(kind, new, op, key, value, found, newLoc, stuck) ==
  /\ flat.kind = kind
  /\ flat' = [flat EXCEPT !.store = new]
  /\ loc' = newLoc
  /\ flast' = [op |-> op, key |-> key, value |-> value, found |-> found,
               stuck |-> stuck]
  /\ UNCHANGED strVars
  /\ UNCHANGED arrVars
  /\ UNCHANGED streamVars

\* the store at the start of a call
FlatBegin == ArrBegin(flat.store)

FlatMapAdd ==
  \E key \in Keys, value \in Values, ok \in BOOLEAN :
    LET new == FlatMap_add(FlatBegin, key, value, ok)
    IN  FlatStep("map", new, "add", key, value, FlatMap_search(flat.store, key).found,
                 new.index, Stuck(flat.store, ok))

FlatMapAddp ==
  \E key \in Keys, value \in Values, ok \in BOOLEAN :
    LET new == FlatMap_addp(FlatBegin, key, value, ok)
    IN  FlatStep("map", new, "addp", key, value, FlatMap_search(flat.store, key).found,
                 loc, Stuck(flat.store, ok))

FlatMapErase ==
  \E key \in Keys :
    FlatStep("map", FlatMap_erase(FlatBegin, key), "erase", key, 0,
             FlatMap_search(flat.store, key).found, loc, FALSE)

FlatMapEraseAt ==
  FlatStep("map", FlatMap_eraseAt(FlatBegin, loc), "eraseAt", 0, 0, FALSE, loc, FALSE)

FlatMapFind ==
  \E key \in Keys :
    LET s == FlatMap_find(flat.store, key)
    IN  FlatStep("map", FlatBegin, "find", key, 0, s.found, s.index, FALSE)

\* insert(location, key, value) as the header allows it: with the location
\* and the key of a find that was the call before it and did not find the key
FlatMapInsert ==
  /\ flast.op = "find"
  /\ ~flast.found
  /\ \E value \in Values, ok \in BOOLEAN :
       FlatStep("map", FlatMap_insert(FlatBegin, loc, flast.key, value, ok), "insert",
                flast.key, value, FALSE, loc, Stuck(flat.store, ok))

FlatMapClear ==
  FlatStep("map", Array_clear(FlatBegin), "clear", 0, 0, FALSE, loc, FALSE)

FlatSetAdd ==
  \E value \in Keys, ok \in BOOLEAN :
    LET new == FlatSet_add(FlatBegin, value, ok)
    IN  FlatStep("set", new, "add", value, 0, FlatSet_search(flat.store, value).found,
                 new.index, Stuck(flat.store, ok))

FlatSetAddp ==
  \E value \in Keys, ok \in BOOLEAN :
    LET new == FlatSet_addp(FlatBegin, value, ok)
    IN  FlatStep("set", new, "addp", value, 0, FlatSet_search(flat.store, value).found,
                 loc, Stuck(flat.store, ok))

FlatSetUpdate ==
  \E value \in Keys, ok \in BOOLEAN :
    FlatStep("set", FlatSet_update(FlatBegin, value, ok), "update", value, 0,
             FlatSet_search(flat.store, value).found, loc, Stuck(flat.store, ok))

FlatSetErase ==
  \E value \in Keys :
    FlatStep("set", FlatSet_erase(FlatBegin, value), "erase", value, 0,
             FlatSet_search(flat.store, value).found, loc, FALSE)

FlatSetEraseAt ==
  FlatStep("set", FlatSet_eraseAt(FlatBegin, loc), "eraseAt", 0, 0, FALSE, loc, FALSE)

FlatNext ==
  \/ FlatMapAdd \/ FlatMapAddp \/ FlatMapErase \/ FlatMapEraseAt \/ FlatMapFind
  \/ FlatMapInsert \/ FlatMapClear
  \/ FlatSetAdd \/ FlatSetAddp \/ FlatSetUpdate \/ FlatSetErase \/ FlatSetEraseAt

InitFlat == StrIdle /\ ArrInit /\ FlatInit /\ StreamIdle

SpecFlat == InitFlat /\ [][FlatNext]_vars

\* ------------------------------------------------ MemoryStream: the calls

\* the highest position a stream is followed to
MemMaxPosition == 4

\* the longest sequence of MemoryStream calls that is followed
MemMaxCalls == 4

\* the bytes written
WriteData == {<<1>>, <<2, 1>>}

WriteSizes == {0 - 1, 1, 2}

ReadSizes == {0 - 1, 0, 1, 2}

SeekOffsets == {0 - 1, 0, 1, 3}

SeekOrigins == {"Beginning", "Current", "End"}

MemCapacityArgs == {0, 3}

CopySizes == {0 - 1, 0, 1}

CopyBlockSizes == {0, 1, 4}

\* the streams copied, moved and read from: an empty one, and one of three
\* bytes at each position; polluted or not
MemSources ==
  {[m EXCEPT !.pol = pol] :
     m \in {MemoryStream_ofCapacity(0, TRUE)}
           \cup {MemBegin(BaseMemoryStream_seek(
                   MemoryStream_write(MemoryStream_ofCapacity(0, TRUE), <<1, 2, 1>>, 3, TRUE),
                   at, "Beginning")) : at \in {0, 1, 3}},
     pol \in BOOLEAN}

\* MemoryStream(capacity), and the stream it will be used with
MemInit ==
  /\ ms \in {MemoryStream_ofCapacity(c, room) : c \in {0, 2}, room \in BOOLEAN}
  /\ other \in MemSources
  /\ mlast = NoMemCall

\* where a write(n bytes at p), seek(p), read(n) sequence stands after the call
\* op has taken the stream from m to new
MemStageAfter(op, m, new, arg) ==
  IF op = "write" /\ new.ret = arg /\ arg > 0 THEN 1
  ELSE IF op = "seek" /\ mlast.stage = 1 /\ new.position = mlast.p THEN 2
  ELSE IF op = "read" /\ mlast.stage = 2 /\ arg = Len(mlast.bytes) THEN 3
  ELSE 0

\* a call on the MemoryStream ms: what it leaves of ms and of other, its name,
\* its argument, the bytes it wrote or read
MemStep(new, newOther, op, arg, bytes, blockSize) ==
  /\ ~ms.oob /\ ~other.oob
  /\ mlast.calls < MemMaxCalls
  /\ new.position <= MemMaxPosition
  /\ ms' = new
  /\ other' = newOther
  /\ LET stage == MemStageAfter(op, ms, new, arg)
         rebased == op \in {"clear", "truncate", "copy", "copyOf", "moveOf", "assign",
                             "moveAssign"}
                    \/ (op = "shrinkToFit" /\ ms.size = 0)
         wrote == op = "write" /\ new.ret > 0
     IN  mlast' = [op |-> op,
                   size |-> IF op = "copy" THEN arg ELSE 0,
                   blockSize |-> blockSize,
                   calls |-> mlast.calls + 1,
                   stage |-> stage,
                   p |-> IF stage = 1 THEN ms.position
                         ELSE IF stage = 0 THEN 0 ELSE mlast.p,
                   bytes |-> IF stage = 1 THEN Take(bytes, arg)
                             ELSE IF stage = 0 THEN <<>> ELSE mlast.bytes,
                   data |-> IF stage = 3 THEN bytes ELSE <<>>,
                   base |-> IF rebased THEN new.size ELSE mlast.base,
                   high |-> IF rebased THEN 0
                            ELSE IF wrote THEN max(mlast.high, new.position)
                            ELSE mlast.high]
  /\ UNCHANGED <<cp, grow>>
  /\ UNCHANGED strVars
  /\ UNCHANGED arrVars
  /\ UNCHANGED flatVars

MemWrite ==
  \E bytes \in WriteData, size \in WriteSizes, room \in BOOLEAN :
    /\ size \in {0 - 1, Len(bytes)}
    /\ MemStep(MemoryStream_write(MemBegin(ms), bytes, size, room), other,
               "write", size, bytes, 0)

MemRead ==
  \E size \in ReadSizes :
    LET got == MemoryStream_read(MemBegin(ms), size)
    IN  MemStep(got.m, other, "read", size, got.bytes, 0)

MemSeek ==
  \E offset \in SeekOffsets, origin \in SeekOrigins :
    LET new == BaseMemoryStream_seek(MemBegin(ms), offset, origin)
    IN  MemStep(new, other, "seek", offset, <<>>, 0)

MemTruncate ==
  \E room \in BOOLEAN :
    MemStep(MemoryStream_truncate(MemBegin(ms), room), other, "truncate", 0, <<>>, 0)

MemSetCapacity ==
  \E n \in MemCapacityArgs, room \in BOOLEAN :
    MemStep(MemoryStream_setCapacity(MemBegin(ms), n, room), other, "capacity", n, <<>>, 0)

MemShrinkToFit ==
  \E room \in BOOLEAN :
    MemStep(MemoryStream_shrinkToFit(MemBegin(ms), room), other, "shrinkToFit", 0, <<>>, 0)

MemClear == MemStep(MemoryStream_clear(MemBegin(ms)), other, "clear", 0, <<>>, 0)

\* ms.copy(other, size, blockSize)
MemCopy ==
  \E size \in CopySizes, blockSize \in CopyBlockSizes, room \in 0..2 :
    LET r == MemoryStream_copy(MemBegin(ms), MemBegin(other), size, blockSize, room)
    IN  MemStep(r.m, r.source, "copy", size, <<>>, blockSize)

\* MemoryStream ms(other)
MemCopyConstruct ==
  \E room \in BOOLEAN :
    MemStep(MemoryStream_copyOf(other, room), other, "copyOf", 0, <<>>, 0)

\* MemoryStream ms(static_cast<MemoryStream&&>(other))
MemMoveConstruct ==
  LET r == MemoryStream_moveOf(other)
  IN  MemStep(r.made, r.left, "moveOf", 0, <<>>, 0)

\* ms = other
MemAssign ==
  \E room \in BOOLEAN :
    MemStep(MemoryStream_assign(MemBegin(ms), other, room), other, "assign", 0, <<>>, 0)

\* ms = static_cast<MemoryStream&&>(other)
MemMoveAssign ==
  LET r == MemoryStream_moveAssign(MemBegin(ms), other)
  IN  MemStep(r.made, r.left, "moveAssign", 0, <<>>, 0)

MemNext ==
  \/ MemWrite \/ MemRead \/ MemSeek \/ MemTruncate \/ MemSetCapacity
  \/ MemShrinkToFit \/ MemClear \/ MemCopy
  \/ MemCopyConstruct \/ MemMoveConstruct \/ MemAssign \/ MemMoveAssign

InitMemory == StrIdle /\ ArrInit /\ FlatIdle /\ MemInit /\ cp = NoCopy /\ grow = NoGrow

SpecMemory == InitMemory /\ [][MemNext]_vars

\* ------------------------------------------------------------ properties

\* C1: every String that is not wrapped is null-terminated: the byte after its
\* characters, data()[length()], is 0.
C1_NullTerminated ==
  (~wrapped(str) /\ ~str.oob) => String_at(str, String_length(str)) = 0

\* C2: the buffer a String wraps is never written: its bytes stay what they
\* were when String::Wrap adopted it, whatever is called on the String.
C2_WrappedBufferUntouched == str.ext = wrapSrc

\* C3: a call that combines strings (operator +, concatenate, append, prepend,
\* copy, replace, insert) leaves a polluted result whenever one of its String
\* operands, the receiver included, was polluted before it.
C3_PollutePropagates ==
  (/\ last.op \in {"plus", "concatenate", "append", "prepend", "copy", "replace", "insert"}
   /\ last.srcPol)
  => str.pol

\* C4: a polluted String stays polluted over every call other than clear() and
\* unpollute() (and burn(), which clears the string), whatever its length.
C4_PolluteSticky ==
  [][(str.pol /\ last'.op \notin {"clear", "unpollute", "burn"} /\ ~str'.oob)
       => str'.pol]_vars

\* C5: erase and replace with any signed position and length touch no byte
\* outside the string's buffer, and erase never makes the string longer.
C5_EraseClamps ==
  [][(last'.op \in {"erase", "replace"} /\ ~str'.failed)
       => (/\ ~str'.oob
           /\ last'.op = "erase" => String_length(str') <= String_length(str))]_vars

\* C6: when the exact result of append, prepend, concatenate, replace or insert
\* would be longer than MaxLength (and memory is there), the String ends with
\* length MaxLength and polluted.
C6_OverflowTruncates ==
  (/\ last.op \in {"append", "prepend", "concatenate", "replace", "insert"}
   /\ last.overflow
   /\ ~str.failed
   /\ ~str.oob)
  => (String_length(str) = StrMaxLength /\ str.pol)

\* C7: when the allocation fails inside length(n), capacity(n) or assign(source),
\* the call returns false and the String (length, bytes, representation, pollute
\* bit) is what it was before the call.
C7_FailedAllocationKeepsString ==
  [][(last'.op \in {"length", "capacity", "assign"} /\ str'.failed)
       => str' = [Begin(str) EXCEPT !.ret = FALSE, !.failed = TRUE]]_vars

\* C7 happens: an allocation failed in one of the three calls on a String with characters
C7_Witness ==
  /\ last.op \in {"length", "capacity", "assign"}
  /\ str.failed
  /\ String_length(str) > 0

\* C8: a content no longer than the short capacity, grown past the short
\* capacity onto the heap and erased back, is again a short String with the same
\* bytes and a terminator once shrink() has returned, and shrink() returns true.
C8_RoundTrip ==
  [][(trip.stage = 2 /\ last'.op = "shrink")
       => (/\ str'.ret
           /\ ~longBit(str')
           /\ String_chars(str') = trip.orig
           /\ String_at(str', String_length(str')) = 0)]_vars

\* C9: burn() on a String that is not wrapped returns true and leaves length 0
\* and a zero in every byte that held one of its length() characters; on a
\* wrapped String it returns false and changes neither the String nor the buffer
\* it wraps.
C9_Burn ==
  [][last'.op = "burn"
       => IF wrapped(str)
          THEN str' = [Begin(str) EXCEPT !.ret = FALSE]
          ELSE /\ str'.ret
               /\ String_length(str') = 0
               /\ \A i \in 0..(String_length(str) - 1) : String_at(str', i) = 0
               /\ longBit(str') = longBit(str)
               /\ str'.ext = str.ext]_vars

\* C9 happens: burn() has returned true on a heap-backed String that held characters
C9_Witness ==
  /\ last.op = "burn"
  /\ str.ret
  /\ Owned(str)
  /\ str.heap[1] = 0
  /\ String_length(str) = 0

\* C10: add and insert that cannot complete (the array is full, or the block is
\* not given) return NotFound / false and change nothing of the array; addp and
\* insertp then change nothing but the pollute bit, which they set.
C10_FailedAddKeepsArray ==
  [][alast'.stuck
       => (/\ arr'.elems = arr.elems
           /\ arr'.capacity = arr.capacity
           /\ alast'.op = "add" => (arr'.index = NotFound /\ arr'.pol = arr.pol)
           /\ alast'.op = "insert" => (~arr'.ret /\ arr'.pol = arr.pol)
           /\ alast'.op \in {"addp", "insertp"} => arr'.pol)]_vars

\* C10 happens: insertp met an allocation failure on an array with elements
C10_Witness ==
  /\ alast.op = "insertp"
  /\ alast.stuck
  /\ arr.failed
  /\ Array_length(arr) > 0

\* C11: populate(count, value) returns true and appends count copies of value
\* behind the elements that were there, or returns false on overflow or when
\* the block is not given; Array(length, value) is unpolluted with length
\* copies of value when the block is given, empty and polluted only when not.
C11_Populate ==
  /\ [](alast.op = "ArrayLength"
         => IF arr.failed
            THEN arr.pol /\ arr.elems = <<>>
            ELSE ~arr.pol /\ arr.elems = Fill(max(alast.first, 0), alast.second))
  /\ [][alast'.op = "populate"
         => IF Array_length(arr) + max(alast'.first, 0) > ArrMaxLength \/ arr'.failed
            THEN ~arr'.ret
            ELSE /\ arr'.ret
                 /\ arr'.elems = arr.elems \o Fill(max(alast'.first, 0), alast'.second)]_vars

\* C12: after purge() the array has length 0 and capacity 0, whatever it was
\* before, an array with reserved capacity and no elements included.
C12_PurgeReleases ==
  alast.op = "purge" => (Array_length(arr) = 0 /\ Array_capacity(arr) = 0)

\* C13: over add, whether it succeeds or fails, capacity() never decreases, and
\* capacity() >= length() after it.
C13_AddGrowsCapacity ==
  [][alast'.op = "add"
       => (/\ Array_capacity(arr') >= Array_capacity(arr)
           /\ Array_capacity(arr') >= Array_length(arr'))]_vars

\* C13 happens: add has grown the block of an array with elements, and the new
\* capacity is above the length
C13_Witness ==
  /\ alast.op = "add"
  /\ arr.index = 2
  /\ Array_capacity(arr) > Array_length(arr)

\* C14: erase(start, count) removes the elements with indices in both
\* [start, start + count) and [0, length()), keeps the others in order and
\* returns true; when there is no such index it returns false and changes
\* nothing; it never sets the pollute bit and touches nothing outside the array.
C14_EraseRange ==
  [][alast'.op = "erase"
       => LET length == Array_length(arr)
              lo == max(alast'.first, 0)
              hi == min(alast'.first + alast'.second, length)
          IN  /\ ~arr'.oob
              /\ arr'.pol = arr.pol
              /\ Array_capacity(arr') = Array_capacity(arr)
              /\ IF lo < hi
                 THEN /\ arr'.ret
                      /\ arr'.elems = SubSeq(arr.elems, 1, lo)
                                        \o SubSeq(arr.elems, hi + 1, length)
                 ELSE /\ ~arr'.ret
                      /\ arr'.elems = arr.elems]_vars

\* C15 as stated: after a successful insert(i, v) and then erase(i), for any i,
\* the array holds the elements it held before the insert.
C15_InsertEraseAnyIndex ==
  atrip.stage = 2 => arr.elems = atrip.orig

\* C15, amended: for 0 <= i <= length(), after a successful insert(i, v) and
\* then erase(i), erase has returned true and the array holds the elements, and
\* so the length, it held before the insert.
C15_InsertEraseInverse ==
  (atrip.stage = 2 /\ atrip.index >= 0 /\ atrip.index <= Len(atrip.orig))
  => (arr.ret /\ arr.elems = atrip.orig)

\* C15 happens: an element was inserted in the middle of an array and erased again
C15_Witness ==
  /\ atrip.stage = 2
  /\ atrip.index = 1
  /\ Len(atrip.orig) >= 2
  /\ arr.ret

\* C16: quickSort(first, last) returns for every array, repeated elements
\* included, and leaves the positions first..last, both clamped to
\* [0, length() - 1], holding the elements they held, in ascending order, and
\* every other position as it was.
C16_QuickSort ==
  [][alast'.op = "quickSort"
       => LET length == Array_length(arr)
              lo == saturate(alast'.first, 0, length - 1)
              hi == saturate(alast'.second, 0, length - 1)
              InRange(i) == lo <= i /\ i <= hi
          IN  /\ arr'.ret
              /\ Array_length(arr') = length
              /\ \A i \in 0..(length - 1) :
                   ~InRange(i) => arr'.elems[i + 1] = arr.elems[i + 1]
              /\ \A e \in SortElements :
                   Cardinality({i \in 0..(length - 1) : InRange(i) /\ arr'.elems[i + 1] = e})
                     = Cardinality({i \in 0..(length - 1) : InRange(i) /\ arr.elems[i + 1] = e})
              /\ \A i \in 0..(length - 2) :
                   (InRange(i) /\ InRange(i + 1))
                     => DefaultCompare(arr'.elems[i + 1], arr'.elems[i + 2]) <= 0]_vars

\* C16 happens: quickSort() has put a full array with repeated elements, which
\* was not in order, in order
C16_Witness ==
  /\ alast.op = "quickSort"
  /\ alast.first = 0
  /\ alast.second = ArrMaxLength
  /\ Array_length(arr) = ArrMaxLength
  /\ atrip.orig # arr.elems
  /\ arr.elems[1] = arr.elems[2]
  /\ arr.elems[1] # arr.elems[ArrMaxLength]

\* C17: on an array in ascending order binarySearch(x) returns the index of an
\* element that compares equal to x when there is one, and NotFound when there
\* is none, the empty array included.
C17_BinarySearch ==
  (/\ alast.op = "binarySearch"
   /\ \A i \in 1..(Array_length(arr) - 1) :
        DefaultCompare(arr.elems[i], arr.elems[i + 1]) <= 0)
  => IF \E i \in 1..Array_length(arr) : DefaultCompare(arr.elems[i], alast.first) = 0
     THEN /\ arr.index \in 0..(Array_length(arr) - 1)
          /\ DefaultCompare(arr.elems[arr.index + 1], alast.first) = 0
     ELSE arr.index = NotFound

\* C17 happens: binarySearch has found an element in the upper half of a full
\* array in ascending order
C17_Witness ==
  /\ alast.op = "binarySearch"
  /\ Array_length(arr) = ArrMaxLength
  /\ \A i \in 1..(Array_length(arr) - 1) :
       DefaultCompare(arr.elems[i], arr.elems[i + 1]) <= 0
  /\ arr.index > 2
  /\ arr.elems[1] # alast.first

\* C18: whatever add, addp, update and erase calls were made on a FlatMap or a
\* FlatSet that started empty or from an initializer list, the keys are stored
\* in strictly ascending order of the comparer, so that no two stored keys
\* compare equal.
C18_KeysAscending == KeysAscending(FlatKeys(flat))

\* C18 happens: update has replaced a value of a FlatSet of three by another
\* spelling of it
C18_Witness ==
  /\ flat.kind = "set"
  /\ flast.op = "update"
  /\ flast.found
  /\ Array_length(flat.store) = 3
  /\ flat.store.elems[1] = 1

\* C19: FlatMap::add(key, value) on a key that compares equal to a stored one
\* overwrites that entry's value, leaves the length and returns its location;
\* on another key it inserts the pair at its place in the order, the length
\* grows by one and it returns the new entry's location; at(location) is value
\* in both cases.  It returns the NotFound location only when the insertion
\* could not be made, and the map is then what it was.
C19_MapAdd ==
  [][(flat.kind = "map" /\ flast'.op = "add")
       => LET pairs == flat.store.elems
              after == flat'.store.elems
              index == flat'.store.index
              hits == {i \in 1..Len(pairs) : TextComparer(pairs[i].key, flast'.key) = 0}
          IN  /\ loc' = index
              /\ IF hits # {}
                 THEN /\ index + 1 \in hits
                      /\ after = [pairs EXCEPT ![index + 1].value = flast'.value]
                      /\ FlatMap_at(flat'.store, index) = flast'.value
                 ELSE IF index # NotFound
                 THEN /\ Len(after) = Len(pairs) + 1
                      /\ index \in 0..Len(pairs)
                      /\ after[index + 1] = [key |-> flast'.key, value |-> flast'.value]
                      /\ SubSeq(after, 1, index) = SubSeq(pairs, 1, index)
                      /\ SubSeq(after, index + 2, Len(after))
                           = SubSeq(pairs, index + 1, Len(pairs))
                      /\ KeysAscending(FlatKeys(flat'))
                      /\ FlatMap_at(flat'.store, index) = flast'.value
                 ELSE /\ flast'.stuck
                      /\ after = pairs
                      /\ Array_capacity(flat'.store) = Array_capacity(flat.store)
                      /\ flat'.store.pol = flat.store.pol]_vars

\* C19 happens: add has overwritten the value of an entry stored under another
\* spelling of the key, in a map of three
C19_Witness ==
  /\ flat.kind = "map"
  /\ flast.op = "add"
  /\ flast.found
  /\ Array_length(flat.store) = 3
  /\ loc = 0
  /\ flat.store.elems[1].key # flast.key
  /\ flat.store.elems[1].value = flast.value

\* C20: find(location, key) returns true and leaves the index of the entry
\* whose key compares equal, or returns false and leaves the index at which
\* the key belongs: the number of stored keys below it.  A successful
\* insert(location, key, value) that follows such a miss leaves the keys in
\* strictly ascending order and value(key) pointing to value.
C20_FindThenInsert ==
  /\ (flat.kind = "map" /\ flast.op = "find")
       => LET pairs == flat.store.elems
              hits == {i \in 1..Len(pairs) : TextComparer(pairs[i].key, flast.key) = 0}
              below == {i \in 1..Len(pairs) : TextComparer(pairs[i].key, flast.key) < 0}
          IN  IF hits # {}
              THEN flast.found /\ loc + 1 \in hits
              ELSE ~flast.found /\ loc = Cardinality(below)
  /\ (flat.kind = "map" /\ flast.op = "insert" /\ flat.store.ret)
       => /\ KeysAscending(FlatKeys(flat))
          /\ flat.store.elems[loc + 1] = [key |-> flast.key, value |-> flast.value]
          /\ FlatMap_value(flat.store, flast.key) = flast.value

\* C20 happens: a key was not found, and inserted between two others at the
\* location find had left
C20_Witness ==
  /\ flat.kind = "map"
  /\ flast.op = "insert"
  /\ flat.store.ret
  /\ Array_length(flat.store) = 3
  /\ loc = 1

\* ------------------------------------------------- Stream::copy: the steps

\* the bytes of the file copied from
CopyData == <<1, 2, 1>>

CopyPositions == {0, 1, 3}

StreamCopySizes == {0 - 1, 0, 1, 2, 5}

StreamCopyBlockSizes == {0, 1, 2, 4}

\* the source as its last seek left it
CopyInit ==
  \E at \in CopyPositions, sized \in BOOLEAN, pol \in BOOLEAN :
    cp = [NoCopy EXCEPT !.data = CopyData, !.start = at, !.position = at,
                        !.sized = sized, !.sourcePol = pol]

CopyStep(new) ==
  /\ cp' = new
  /\ UNCHANGED <<grow, ms, other, mlast>>
  /\ UNCHANGED strVars
  /\ UNCHANGED arrVars
  /\ UNCHANGED flatVars

\* Stream::copy up to its loop
CopyCall ==
  /\ cp.pc = "idle"
  /\ \E size \in StreamCopySizes, blockSize0 \in StreamCopyBlockSizes, room \in BOOLEAN :
       LET position == IF cp.sized THEN cp.position ELSE Failure
           sourceSize == IF cp.sized THEN Len(cp.data) ELSE Failure
           blockSize == IF position >= 0 /\ sourceSize > 0
                        THEN ClampBlockSize(sourceSize, position, size, blockSize0)
                        ELSE blockSize0
       IN  IF blockSize > 0 /\ size >= 0 /\ room
           THEN CopyStep([cp EXCEPT !.pc = "read", !.size = size, !.blockSize = blockSize,
                                    !.totalBytesRead = 0, !.buffer = <<>>,
                                    !.available = TRUE])
           ELSE CopyStep([cp EXCEPT !.pc = "done", !.size = size, !.blockSize = blockSize,
                                    !.totalBytesRead = Failure, !.ret = Failure,
                                    !.pol = TRUE,
                                    !.error = (blockSize > 0 /\ size >= 0)])

\* the first half of the loop: read additional data into the block
CopyRead ==
  /\ cp.pc = "read"
  /\ IF Len(cp.buffer) < cp.blockSize /\ cp.available
     THEN LET availableSize == cp.blockSize - Len(cp.buffer)
              bytesToRead == IF cp.size # 0
                             THEN min(cp.size - cp.totalBytesRead, availableSize)
                             ELSE availableSize
          IN  \E bytesRead \in FileStream_read(bytesToRead, Len(cp.data) - cp.position) :
                IF bytesRead < 0
                THEN CopyStep([cp EXCEPT !.pc = "done", !.pol = TRUE, !.error = TRUE,
                                         !.ret = cp.totalBytesRead])
                ELSE CopyStep([cp EXCEPT
                       !.pc = "write",
                       !.available = (bytesRead # 0),
                       !.buffer = cp.buffer
                                  \o SubSeq(cp.data, cp.position + 1, cp.position + bytesRead),
                       !.position = cp.position + bytesRead,
                       !.totalBytesRead = cp.totalBytesRead + bytesRead])
     ELSE CopyStep([cp EXCEPT !.pc = "write"])

\* the second half of the loop: write data from the block
CopyWrite ==
  /\ cp.pc = "write"
  /\ IF Len(cp.buffer) # 0
     THEN \E bytesWritten \in FileStream_write(Len(cp.buffer)) :
            IF bytesWritten <= 0
            THEN CopyStep([cp EXCEPT !.pc = "done", !.pol = TRUE, !.error = TRUE,
                                     !.ret = cp.totalBytesRead])
            ELSE CopyStep([cp EXCEPT
                   !.pc = "read",
                   !.accepted = cp.accepted \o Take(cp.buffer, bytesWritten),
                   !.buffer = KeepRemainder(cp.buffer, bytesWritten)])
     ELSE CopyStep([cp EXCEPT !.pc = "done", !.ret = cp.totalBytesRead])

CopyNext == CopyCall \/ CopyRead \/ CopyWrite

InitCopy == StrIdle /\ ArrInit /\ FlatIdle /\ MemIdle /\ CopyInit /\ grow = NoGrow

SpecCopy == InitCopy /\ [][CopyNext]_vars

\* ------------------------------------------------ math::computeNextCapacity

\* the largest capacity asked for
GrowMax == 40

\* the initial capacities: none, a small one, a power of two
GrowInitials == {0, 3, 16}

GrowInit ==
  \E requested \in 1..GrowMax, current \in 0..GrowMax, initial \in GrowInitials :
    /\ requested > current
    /\ grow = [NoGrow EXCEPT !.requested = requested, !.current = current,
                             !.initial = initial]

GrowStep(new) ==
  /\ grow' = new
  /\ UNCHANGED <<cp, ms, other, mlast>>
  /\ UNCHANGED strVars
  /\ UNCHANGED arrVars
  /\ UNCHANGED flatVars

\* computeNextCapacity(requested, current, initial)
GrowCompute ==
  /\ ~grow.computed
  /\ GrowStep([grow EXCEPT
       !.result = computeNextCapacity(grow.requested, grow.current, grow.initial),
       !.computed = TRUE])

\* the buffer has the capacity computed, and more is asked for
GrowAgain ==
  /\ grow.computed
  /\ \E requested \in 1..GrowMax :
       /\ requested > grow.result
       /\ GrowStep([grow EXCEPT !.requested = requested, !.current = grow.result,
                                !.computed = FALSE])

GrowNext == GrowCompute \/ GrowAgain

InitGrow == StrIdle /\ ArrInit /\ FlatIdle /\ MemIdle /\ cp = NoCopy /\ GrowInit

SpecGrow == InitGrow /\ [][GrowNext]_vars

\* ------------------------------------------------- properties of the streams

\* C21: in every state of every MemoryStream, the one worked on and the one
\* copied or moved from alike, size() <= capacity(), whatever calls were made
\* and whichever allocations failed.
C21_SizeWithinCapacity ==
  /\ ms.size <= MemoryStream_capacity(ms)
  /\ other.size <= MemoryStream_capacity(other)

\* C22: when a read, a write or the allocation of the block fails in
\* Stream::copy, or an allocation fails in MemoryStream::copy, the destination is
\* polluted and the call returns the number of bytes the destination has
\* taken, or Failure when it has taken none.
C22_CopyErrorPaths ==
  /\ [](cp.pc = "done" /\ cp.error
          => /\ cp.pol
             /\ cp.ret = IF cp.accepted = <<>> THEN Failure ELSE Len(cp.accepted))
  /\ [][(mlast'.op = "copy" /\ ~ms'.ok)
          => /\ ms'.pol
             /\ ms'.ret = IF ms'.position = ms.position THEN Failure
                          ELSE ms'.position - ms.position]_vars

\* C23: copy(source, size, blockSize) with size > 0 takes at most size bytes
\* from the source and returns at most size, in Stream::copy at every step and
\* in MemoryStream::copy.
C23_CopyAtMostSize ==
  /\ []((cp.pc # "idle" /\ cp.size > 0)
          => /\ cp.position - cp.start <= cp.size
             /\ cp.totalBytesRead <= cp.size
             /\ Len(cp.accepted) <= cp.size)
  /\ [][(mlast'.op = "copy" /\ mlast'.size > 0)
          => /\ other'.position - other.position <= mlast'.size
             /\ ms'.position - ms.position <= mlast'.size
             /\ ms'.ret <= mlast'.size]_vars

\* C24: after destination.copy(source, ...) with a source that was polluted
\* before the call, the destination is polluted, whether bytes were
\* transferred or not.
C24_PollutedSource ==
  /\ []((cp.pc = "done" /\ cp.sourcePol) => cp.pol)
  /\ [][(mlast'.op = "copy" /\ other.pol) => ms'.pol]_vars

\* C25 as stated: after a write of n bytes at p that succeeded, seek(p) and
\* read(n) return the bytes written and leave the position at p + n; and
\* size() is the largest end position written since the last clear or
\* truncate.
C25_SizeIsHighestWrite ==
  /\ mlast.stage = 3
       => /\ mlast.data = mlast.bytes
          /\ ms.ret = Len(mlast.bytes)
          /\ ms.position = mlast.p + Len(mlast.bytes)
  /\ ms.size = mlast.high

\* C25, amended: the bytes written are read back as stated; size() is the
\* larger of the size the last construction, assignment, copy, clear or
\* truncate left and the largest end position written since.
C25_ReadBack ==
  /\ mlast.stage = 3
       => /\ mlast.data = mlast.bytes
          /\ ms.ret = Len(mlast.bytes)
          /\ ms.position = mlast.p + Len(mlast.bytes)
  /\ ~ms.oob => ms.size = max(mlast.base, mlast.high)

\* C25 happens: two bytes written past the end of a stream that was truncated
\* before, and read back
C25_Witness ==
  /\ mlast.stage = 3
  /\ mlast.p > 0
  /\ Len(mlast.bytes) = 2
  /\ mlast.high > mlast.base
  /\ mlast.calls = MemMaxCalls

\* C26: for requested > current >= 0 and initial >= 0,
\* computeNextCapacity(requested, current, initial) >= requested.
C26_NextCapacityCovers == grow.computed => grow.result >= grow.requested

\* C26 happens: the capacity asked for is beyond the next step of the current
\* one, is no power of two and above one and a half times the power below it
C26_Witness ==
  /\ grow.computed
  /\ grow.current # grow.initial
  /\ grow.requested > computeNextCapacity1(grow.current)
  /\ ~isPowerOfTwo(grow.requested)
  /\ grow.result = ceilPowerOfTwo(grow.requested)
  /\ grow.result > grow.requested

\* C27: at every step of Stream::copy the bytes the destination has taken,
\* followed by the bytes in the block, are the bytes read from the source, in
\* their order; the block never holds more than blockSize bytes; and when copy
\* returns without an error the destination has taken all the bytes read.
C27_PartialWrites ==
  cp.pc # "idle" /\ cp.totalBytesRead >= 0
    => /\ cp.accepted \o cp.buffer = SubSeq(cp.data, cp.start + 1, cp.position)
       /\ Len(cp.buffer) <= cp.blockSize
       /\ Len(cp.accepted) + Len(cp.buffer) = cp.totalBytesRead
       /\ (cp.pc = "done" /\ ~cp.error) =>
            cp.accepted = SubSeq(cp.data, cp.start + 1, cp.position)

\* C27 happens: a copy returned without an error after a write had taken only
\* part of the block
C27_Witness ==
  /\ cp.pc = "done"
  /\ ~cp.error
  /\ cp.blockSize = 2
  /\ cp.size = 0
  /\ Len(cp.accepted) = 3

\* C28: whenever a wrapped String is converted to an owned representation
\* (inline or heap) by unwrap(), capacity(n), length(n), assign, copy or
\* concatenate, the new storage holds all the bytes copied into it from the
\* wrapped buffer: no write goes past the inline storage or the new block.
C28_WrappedConversionFits ==
  [][(wrapped(str) /\ ~wrapped(str')) => ~str'.over]_vars

\* C29: every heap block a String owns is released exactly once: over any
\* sequence of calls ended by the destructor no owned block is dropped without
\* being freed, free is given nothing but a live owned block, and nothing is
\* left allocated after ~String.
C29_ReleasedExactlyOnce ==
  /\ ~str.leaked
  /\ ~str.badFree
  /\ (last.op = "~String" => str.heap = <<>>)

\* C30: searchEraseAll(string, match) terminates for every string and every
\* match under every allocation outcome: a call that has entered its loop
\* reaches its return.
C30_SearchEraseAllTerminates == (se.pc = "find") ~> (se.pc = "done")

====
